---- MODULE Spec2Model ----
(***************************************************************************)
(* Unit selection, control groups and the unit pool of the glTF viewer     *)
(* (src/main.c).  One action is one frame of the main loop in which one    *)
(* input event is handled; the frame ends with the camera update of the    *)
(* current view mode.                                                      *)
(*                                                                         *)
(* Lengths are fixed-point integers: FP units make 1.0.  FP is a multiple  *)
(* of every possible divisor of a centroid (1..MAX_UNITS), of 10 and of 8, *)
(* so the divisions and the constants 0.2, 0.8 and 0.375 (half a formation *)
(* spacing) of the source are exact.  Times are in the same scale: FP      *)
(* units make one second.                                                  *)
(*                                                                         *)
(* Spec covers selection, control groups and the unit pool, with the units *)
(* standing where they were spawned; UnitSpec covers the unit simulation   *)
(* (commands, per-frame updates, ground clamp).                            *)
(***************************************************************************)
EXTENDS Integers, Sequences, FiniteSets, TLC

\* Size of the unit pool (#define MAX_UNITS 100, scaled down).
MAX_UNITS == 2
\* Calls of SpawnUnit made by one SPACE press (5 in main); larger than the
\* pool, so that a burst meets the cap part-way.
SpawnBurst == 3
\* Highest control group number (9 in the source, scaled down).
MaxGroup == 2
\* Number of TAB presses in a run.
MaxViewSwitches == 1
\* Number of frames in a run of the unit simulation.
MaxFrames == 5
\* Wandering units stay within this distance of the origin in x and in z.
ArenaRadius == 1

Slots == 0 .. (MAX_UNITS - 1)
Groups == 1 .. MaxGroup
\* Arguments tried on the group functions: the valid numbers and one
\* invalid number on each side.
GroupArgs == 0 .. (MaxGroup + 1)

RECURSIVE Gcd(_, _)
Gcd(a, b) == IF b = 0 THEN a ELSE Gcd(b, a % b)

RECURSIVE LcmUpTo(_)
LcmUpTo(n) == IF n <= 1 THEN 1 ELSE (LcmUpTo(n - 1) * n) \div Gcd(LcmUpTo(n - 1), n)

FP == 40 * LcmUpTo(MAX_UNITS)

Vec(a, b, c) == [x |-> a, y |-> b, z |-> c]
Zero3 == Vec(0, 0, 0)

UNIT_HEIGHT_OFFSET == (2 * FP) \div 10

VIEW_MODE_ORBIT == "ORBIT"
VIEW_MODE_ISOMETRIC == "ISOMETRIC"

\* The loaded scene (see `model` below): bounding box centred on the origin,
\* largest dimension 3.2, so the isometric height (1.5 times that) is
\* clamped up to its minimum.
modelCenter == Zero3
ISO_CAMERA_MIN_HEIGHT == 5 * FP

VARIABLES
    units,          \* Unit units[MAX_UNITS]
    unitCount,      \* int unitCount
    controlGroups,  \* ControlGroup controlGroups[10], entries 1..MaxGroup
    viewMode,       \* ViewMode viewMode (main)
    orbit,          \* OrbitCamera orbit (main)
    isometric,      \* IsometricCamera isometric (main)
    camera,         \* Camera3D camera (main)
    switches,       \* number of TAB presses so far
    lastOp,         \* history: the input event of the last frame
    assigned,       \* history: per group, the selection of its last assignment
    commandMarker,  \* CommandMarker commandMarker
    showUnits,      \* bool showUnits (main)
    phase,          \* position in the frame: "input" or "update"
    frames,         \* number of frames completed
    query,          \* arguments of a geometry or formation query
    answer,         \* its result
    process         \* main: where it is, its exit code, the UnloadModel calls

vars == <<units, unitCount, controlGroups, viewMode, orbit, isometric, camera,
          switches, lastOp, assigned, commandMarker, showUnits, phase, frames,
          query, answer, process>>

\* What the frames of Spec leave alone.
simulation == <<commandMarker, showUnits, phase, frames, query, answer, process>>

(***************************************************************************)
(* Units                                                                   *)
(***************************************************************************)

\* InitUnit: the fields of Unit that selection, grouping and movement read
\* (velocity, rotation, size and color are only drawn).
InitUnit(position) ==
    [position |-> position, targetPosition |-> position,
     commandTarget |-> position, hasCommand |-> FALSE, moveTimer |-> 0,
     active |-> TRUE, selected |-> FALSE, groupId |-> 0]

\* A slot of the zero-initialised global array, as main leaves it before the
\* first frame (active = false).
EmptyUnit ==
    [position |-> Zero3, targetPosition |-> Zero3, commandTarget |-> Zero3,
     hasCommand |-> FALSE, moveTimer |-> 0,
     active |-> FALSE, selected |-> FALSE, groupId |-> 0]

\* The random draw of SpawnUnit, <<cos(angle)*distance, sin(angle)*distance>>,
\* for the unit that goes into slot n: distance 1.0 (the smallest drawn) at
\* angle 0 for even slots and 180 degrees for odd ones, so that neighbouring
\* slots are apart on the screen.
SpawnDraws(n) == IF n % 2 = 0 THEN { <<FP, 0>> } ELSE { <<0 - FP, 0>> }

\* One draw per slot, for a whole burst.
BurstDraws == { d \in [Slots -> {FP, 0 - FP} \X {0}] : \A n \in Slots : d[n] \in SpawnDraws(n) }

\* Mutant of SpawnUnit: the capacity test is off by one.
SpawnUnit_OffByOne(us, n, centerPos, draw) ==
    IF n > MAX_UNITS
    THEN [units |-> us, unitCount |-> n]
    ELSE [units |-> [i \in Slots |->
                        IF i = n
                        THEN InitUnit(Vec(centerPos.x + draw[1],
                                          centerPos.y + UNIT_HEIGHT_OFFSET,
                                          centerPos.z + draw[2]))
                        ELSE us[i]],
          unitCount |-> n + 1]

\* Mutant of SpawnUnit: a deactivated slot below unitCount is taken again
\* before a new one is.
SpawnUnit_ReusesSlot(us, n, centerPos, draw) ==
    LET free == { i \in Slots : i < n /\ ~us[i].active }
        unit == InitUnit(Vec(centerPos.x + draw[1],
                             centerPos.y + UNIT_HEIGHT_OFFSET,
                             centerPos.z + draw[2]))
    IN  IF free /= {}
        THEN [units |-> [us EXCEPT ![CHOOSE i \in free : \A j \in free : i <= j] = unit],
              unitCount |-> n]
        ELSE IF n >= MAX_UNITS
        THEN [units |-> us, unitCount |-> n]
        ELSE [units |-> [us EXCEPT ![n] = unit], unitCount |-> n + 1]

\* SpawnUnit(centerPos, radius) with its random draw made explicit.
SpawnUnit(us, n, centerPos, draw) ==
    IF n >= MAX_UNITS
    THEN [units |-> us, unitCount |-> n]
    ELSE [units |-> [us EXCEPT ![n] =
                        InitUnit(Vec(centerPos.x + draw[1],
                                     centerPos.y + UNIT_HEIGHT_OFFSET,
                                     centerPos.z + draw[2]))],
          unitCount |-> n + 1]

\* main, KEY_SPACE: SpawnBurst calls of SpawnUnit; draws[n] is the draw of
\* the call that fills slot n (a rejected call uses none).
RECURSIVE SpawnLoop(_, _, _, _)
SpawnLoop(k, us, n, draws) ==
    IF k > SpawnBurst
    THEN [units |-> us, unitCount |-> n]
    ELSE LET r == SpawnUnit(us, n, modelCenter,
                            IF n \in Slots THEN draws[n] ELSE <<0, 0>>)
         IN  SpawnLoop(k + 1, r.units, r.unitCount, draws)

\* main, KEY_C: unitCount = 0 and every slot inactive; nothing else is reset.
ClearUnits(us) == [i \in Slots |-> [us[i] EXCEPT !.active = FALSE]]

\* Mutant of DeleteSelected: the test of the selected flag is inverted.
DeleteSelected_Inverted(us, n) ==
    [i \in Slots |-> IF i < n /\ ~us[i].selected
                     THEN [us[i] EXCEPT !.active = FALSE]
                     ELSE us[i]]

\* main, KEY_DELETE: every selected slot below unitCount becomes inactive.
DeleteSelected(us, n) ==
    [i \in Slots |-> IF i < n /\ us[i].selected
                     THEN [us[i] EXCEPT !.active = FALSE]
                     ELSE us[i]]

(***************************************************************************)
(* Box selection                                                           *)
(***************************************************************************)

Min(a, b) == IF a < b THEN a ELSE b
Max(a, b) == IF a > b THEN a ELSE b

\* raylib GetWorldToScreen, abstracted to a top-down view centred on the
\* camera target: screen x follows world x, screen y follows world z.
GetWorldToScreen(position, cam) ==
    [x |-> position.x - cam.target.x, y |-> position.z - cam.target.z]

\* Mutant of SelectUnitsInBox: the corners are taken as (min, max) as given.
SelectUnitsInBox_NoMinMax(us, n, start, end, cam) ==
    LET deselected == [i \in Slots |-> IF i < n
                                       THEN [us[i] EXCEPT !.selected = FALSE]
                                       ELSE us[i]]
        inBox(i) == LET screenPos == GetWorldToScreen(us[i].position, cam)
                    IN  /\ screenPos.x >= start.x /\ screenPos.x <= end.x
                        /\ screenPos.y >= start.y /\ screenPos.y <= end.y
    IN  [i \in Slots |-> IF i < n /\ deselected[i].active /\ inBox(i)
                         THEN [deselected[i] EXCEPT !.selected = TRUE]
                         ELSE deselected[i]]

SelectUnitsInBox(us, n, start, end, cam) ==
    LET minX == Min(start.x, end.x)
        maxX == Max(start.x, end.x)
        minY == Min(start.y, end.y)
        maxY == Max(start.y, end.y)
        deselected == [i \in Slots |-> IF i < n
                                       THEN [us[i] EXCEPT !.selected = FALSE]
                                       ELSE us[i]]
        inBox(i) == LET screenPos == GetWorldToScreen(us[i].position, cam)
                    IN  /\ screenPos.x >= minX /\ screenPos.x <= maxX
                        /\ screenPos.y >= minY /\ screenPos.y <= maxY
    IN  [i \in Slots |-> IF i < n /\ deselected[i].active /\ inBox(i)
                         THEN [deselected[i] EXCEPT !.selected = TRUE]
                         ELSE deselected[i]]

(***************************************************************************)
(* Control groups                                                          *)
(***************************************************************************)

InSeq(seq) == { seq[k] : k \in 1 .. Len(seq) }

\* A ControlGroup: unitIndices holds the first unitCount entries of the array.
EmptyGroup == [unitIndices |-> << >>, unitCount |-> 0, active |-> FALSE]

\* The inner loops of AssignControlGroup: drop the first entry equal to i and
\* shift the rest down.
RECURSIVE RemoveFirst(_, _)
RemoveFirst(seq, i) ==
    IF seq = << >> THEN << >>
    ELSE IF Head(seq) = i THEN Tail(seq)
    ELSE <<Head(seq)>> \o RemoveFirst(Tail(seq), i)

RemoveFromGroup(grp, i) ==
    LET rest == RemoveFirst(grp.unitIndices, i)
    IN  [grp EXCEPT !.unitIndices = rest, !.unitCount = Len(rest)]

\* AssignControlGroup, first loop: for each selected active unit from slot i
\* on, leave the old group and take the new group id.
RECURSIVE ClearOldAssignments(_, _, _, _, _)
ClearOldAssignments(i, us, n, cgs, groupNum) ==
    IF i >= n
    THEN [units |-> us, controlGroups |-> cgs]
    ELSE IF us[i].active /\ us[i].selected
    THEN LET old == us[i].groupId
             cgs2 == IF old > 0
                     THEN [cgs EXCEPT ![old] = RemoveFromGroup(cgs[old], i)]
                     ELSE cgs
         IN  ClearOldAssignments(i + 1, [us EXCEPT ![i].groupId = groupNum],
                                 n, cgs2, groupNum)
    ELSE ClearOldAssignments(i + 1, us, n, cgs, groupNum)

\* AssignControlGroup, second loop: the selected active units from slot i on,
\* in slot order.
RECURSIVE BuildNewGroup(_, _, _)
BuildNewGroup(i, us, n) ==
    IF i >= n THEN << >>
    ELSE IF us[i].active /\ us[i].selected
    THEN <<i>> \o BuildNewGroup(i + 1, us, n)
    ELSE BuildNewGroup(i + 1, us, n)

\* Mutant of AssignControlGroup: the group is not emptied before the
\* selected units are entered.
AssignControlGroup_NotEmptied(us, n, cgs, groupNum) ==
    IF groupNum < 1 \/ groupNum > MaxGroup
    THEN [units |-> us, controlGroups |-> cgs]
    ELSE LET members == cgs[groupNum].unitIndices \o BuildNewGroup(0, us, n)
         IN  [units |-> [i \in Slots |->
                            IF i < n /\ us[i].active /\ us[i].selected
                            THEN [us[i] EXCEPT !.groupId = groupNum] ELSE us[i]],
              controlGroups |->
                  [cgs EXCEPT ![groupNum] =
                      [unitIndices |-> members, unitCount |-> Len(members),
                       active |-> TRUE]]]

AssignControlGroup(us, n, cgs, groupNum) ==
    IF groupNum < 1 \/ groupNum > MaxGroup
    THEN [units |-> us, controlGroups |-> cgs]
    ELSE LET r == ClearOldAssignments(0, us, n, cgs, groupNum)
             members == BuildNewGroup(0, r.units, n)
         IN  [units |-> r.units,
              controlGroups |->
                  [r.controlGroups EXCEPT ![groupNum] =
                      [unitIndices |-> members, unitCount |-> Len(members),
                       active |-> TRUE]]]

\* Mutant of ValidMembers: the active flag is not tested.
RECURSIVE ValidMembers_IgnoresActive(_, _, _)
ValidMembers_IgnoresActive(seq, us, n) ==
    IF seq = << >> THEN << >>
    ELSE IF Head(seq) < n
    THEN <<Head(seq)>> \o ValidMembers_IgnoresActive(Tail(seq), us, n)
    ELSE ValidMembers_IgnoresActive(Tail(seq), us, n)

\* SelectControlGroup, the loop over the group: the entries that resolve to
\* an active unit below unitCount.
RECURSIVE ValidMembers(_, _, _)
ValidMembers(seq, us, n) ==
    IF seq = << >> THEN << >>
    ELSE IF Head(seq) < n /\ us[Head(seq)].active
    THEN <<Head(seq)>> \o ValidMembers(Tail(seq), us, n)
    ELSE ValidMembers(Tail(seq), us, n)

RECURSIVE SumPositions(_, _)
SumPositions(seq, us) ==
    IF seq = << >> THEN Zero3
    ELSE LET p == us[Head(seq)].position
             s == SumPositions(Tail(seq), us)
         IN  Vec(p.x + s.x, p.y + s.y, p.z + s.z)

\* The centre SelectControlGroup computes from the resolved entries.
GroupCenter(valid, us) ==
    LET validCount == Len(valid)
        sum == SumPositions(valid, us)
    IN  IF validCount > 0
        THEN Vec(sum.x \div validCount, sum.y \div validCount, sum.z \div validCount)
        ELSE Zero3

\* Mutant of SelectControlGroup: the selection is not cleared first.
SelectControlGroup_KeepsSelection(us, n, cgs, groupNum) ==
    IF groupNum < 1 \/ groupNum > MaxGroup
    THEN [units |-> us, center |-> Zero3]
    ELSE IF ~cgs[groupNum].active \/ cgs[groupNum].unitCount = 0
    THEN [units |-> us, center |-> Zero3]
    ELSE LET valid == ValidMembers(cgs[groupNum].unitIndices, us, n)
         IN  [units |-> [i \in Slots |->
                            IF i \in InSeq(valid) THEN [us[i] EXCEPT !.selected = TRUE]
                            ELSE us[i]],
              center |-> GroupCenter(valid, us)]

\* Mutant of SelectControlGroup: an empty membership list is not rejected.
SelectControlGroup_NoEmptyTest(us, n, cgs, groupNum) ==
    IF groupNum < 1 \/ groupNum > MaxGroup
    THEN [units |-> us, center |-> Zero3]
    ELSE IF ~cgs[groupNum].active
    THEN [units |-> us, center |-> Zero3]
    ELSE LET valid == ValidMembers(cgs[groupNum].unitIndices, us, n)
         IN  [units |-> [i \in Slots |->
                            IF i \in InSeq(valid) THEN [us[i] EXCEPT !.selected = TRUE]
                            ELSE IF i < n THEN [us[i] EXCEPT !.selected = FALSE]
                            ELSE us[i]],
              center |-> GroupCenter(valid, us)]

\* SelectControlGroup: the units after the call and the returned vector.
SelectControlGroup(us, n, cgs, groupNum) ==
    IF groupNum < 1 \/ groupNum > MaxGroup
    THEN [units |-> us, center |-> Zero3]
    ELSE IF ~cgs[groupNum].active \/ cgs[groupNum].unitCount = 0
    THEN [units |-> us, center |-> Zero3]
    ELSE LET valid == ValidMembers(cgs[groupNum].unitIndices, us, n)
         IN  [units |-> [i \in Slots |->
                            IF i \in InSeq(valid) THEN [us[i] EXCEPT !.selected = TRUE]
                            ELSE IF i < n THEN [us[i] EXCEPT !.selected = FALSE]
                            ELSE us[i]],
              center |-> GroupCenter(valid, us)]

(***************************************************************************)
(* Cameras                                                                 *)
(***************************************************************************)

\* main, the branch after SelectControlGroup: recentre the camera of the
\* current mode unless the returned vector is the zero vector.
CenterOnGroup(mode, orb, iso, groupCenter) ==
    IF groupCenter.x /= 0 \/ groupCenter.y /= 0 \/ groupCenter.z /= 0
    THEN IF mode = VIEW_MODE_ORBIT
         THEN [orbit |-> [orb EXCEPT !.target = groupCenter], isometric |-> iso]
         ELSE [orbit |-> orb,
               isometric |->
                   [iso EXCEPT !.target = groupCenter,
                               !.targetTarget = groupCenter,
                               !.targetPosition =
                                   Vec(groupCenter.x, iso.targetPosition.y,
                                       groupCenter.z + (iso.height * 8) \div 10)]]
    ELSE [orbit |-> orb, isometric |-> iso]

\* ISO_CAMERA_SMOOTHING 0.15f: one smoothing step of a coordinate.
Smooth(cur, target) == cur + ((target - cur) * 15) \div 100

\* Mutant of SmoothIsometric: the focus is put on its pending target at once.
SmoothIsometric_Snap(iso) ==
    [iso EXCEPT !.target = Vec(iso.targetTarget.x, iso.target.y, iso.targetTarget.z)]

\* UpdateIsometricCamera without input: the focus point moves towards its
\* pending target (iso->position is smoothed the same way and read nowhere).
SmoothIsometric(iso) ==
    [iso EXCEPT !.target = Vec(Smooth(iso.target.x, iso.targetTarget.x),
                               iso.target.y,
                               Smooth(iso.target.z, iso.targetTarget.z))]

\* The last lines of UpdateOrbitCamera and of UpdateIsometricCamera:
\* the look-at point of the Camera3D.
CameraOf(mode, orb, iso) ==
    [target |-> IF mode = VIEW_MODE_ORBIT THEN orb.target ELSE iso.target]

(***************************************************************************)
(* Scene geometry and ray queries                                          *)
(***************************************************************************)

Abs(a) == IF a < 0 THEN 0 - a ELSE a
Sign(a) == IF a < 0 THEN 0 - 1 ELSE IF a > 0 THEN 1 ELSE 0

\* a * b in fixed point, rounded towards zero as a float-to-int cast is.
Mul(a, b) == Sign(a) * Sign(b) * ((Abs(a) * Abs(b)) \div FP)

\* A Mesh is [indexed, triangles]: `indexed` is mesh.indices != NULL and
\* `triangles` is the sequence of vertex triples that the loop over
\* triangleCount yields, through the index array or as consecutive triples.
\* model.transform is the identity (main sets it before the loop).
Triangle(a, b, c) == <<a, b, c>>

\* A horizontal rectangular face at height h, as two triangles.
Face(x0, x1, z0, z1, h) ==
    << Triangle(Vec(x0, h, z0), Vec(x1, h, z0), Vec(x1, h, z1)),
       Triangle(Vec(x0, h, z0), Vec(x1, h, z1), Vec(x0, h, z1)) >>

\* Half the footprint of the loaded model and half its height.
HalfWidth == (16 * FP) \div 10
HalfHeight == FP

\* The axis-aligned box around the vertices of a sequence of triangles.
BoundsOf(triangles) ==
    LET vs == UNION { { triangles[k][1], triangles[k][2], triangles[k][3] } :
                      k \in 1 .. Len(triangles) }
        lo(S) == CHOOSE a \in S : \A b \in S : a <= b
        hi(S) == CHOOSE a \in S : \A b \in S : a >= b
    IN  [min |-> Vec(lo({ v.x : v \in vs }), lo({ v.y : v \in vs }), lo({ v.z : v \in vs })),
         max |-> Vec(hi({ v.x : v \in vs }), hi({ v.y : v \in vs }), hi({ v.z : v \in vs }))]

\* A mesh of a loaded model; its bounding box is worked out once.
Mesh(indexed, triangles) ==
    [indexed |-> indexed, triangles |-> triangles, bounds |-> BoundsOf(triangles)]

\* The loaded model: one index-based mesh, a slab with a top and a bottom
\* face.  Units stand on the top face, 1.0 above the ground level outside.
model ==
    << Mesh(TRUE,
            Face(0 - HalfWidth, HalfWidth, 0 - HalfWidth, HalfWidth, HalfHeight)
            \o Face(0 - HalfWidth, HalfWidth, 0 - HalfWidth, HalfWidth, 0 - HalfHeight)) >>

\* A Ray is [position, direction]; direction is a unit vector in fixed point.
Ray(position, direction) == [position |-> position, direction |-> direction]

NoHit == [hit |-> FALSE, distance |-> 0, point |-> Zero3]

\* Twice the signed area of (a, b, p) seen from above.
Edge(a, b, p) == (b.x - a.x) * (p.z - a.z) - (b.z - a.z) * (p.x - a.x)

\* raylib GetRayCollisionTriangle for a horizontal triangle (the scenes here
\* are built of horizontal faces): the ray meets the plane of the triangle
\* in front of its origin, at a point inside the closed triangle.
GetRayCollisionTriangle(ray, tri) ==
    LET h == tri[1].y
        num == h - ray.position.y
        den == ray.direction.y
    IN  IF den = 0 \/ Sign(num) /= Sign(den)
        THEN NoHit
        ELSE LET t == (Abs(num) * FP) \div Abs(den)
                 p == Vec(ray.position.x + Mul(t, ray.direction.x), h,
                          ray.position.z + Mul(t, ray.direction.z))
                 e1 == Edge(tri[1], tri[2], p)
                 e2 == Edge(tri[2], tri[3], p)
                 e3 == Edge(tri[3], tri[1], p)
             IN  IF (e1 >= 0 /\ e2 >= 0 /\ e3 >= 0) \/ (e1 <= 0 /\ e2 <= 0 /\ e3 <= 0)
                 THEN [hit |-> TRUE, distance |-> t, point |-> p]
                 ELSE NoHit

\* raylib GetMeshBoundingBox.
GetMeshBoundingBox(mesh) == mesh.bounds

\* One axis of the slab test: the interval of ray parameters, as fractions
\* <<numerator, denominator>> with a positive denominator, in which the ray
\* is between lo and hi; `empty` when the ray runs beside the slab.
SlabAxis(o, d, lo, hi) ==
    IF d = 0
    THEN [empty |-> o < lo \/ o > hi, bounded |-> FALSE, near |-> <<0, 1>>, far |-> <<0, 1>>]
    ELSE LET a == <<(lo - o) * Sign(d), Abs(d)>>
             b == <<(hi - o) * Sign(d), Abs(d)>>
         IN  [empty |-> FALSE, bounded |-> TRUE,
              near |-> IF a[1] <= b[1] THEN a ELSE b,
              far |-> IF a[1] <= b[1] THEN b ELSE a]

\* p <= q for fractions with positive denominators.
FracLeq(p, q) == p[1] * q[2] <= q[1] * p[2]

\* raylib GetRayCollisionBox: the closed box is met at a ray parameter that
\* is not negative; distance is the parameter at which the ray enters it,
\* or leaves it when the origin is inside.
GetRayCollisionBox(ray, box) ==
    LET ax == << SlabAxis(ray.position.x, ray.direction.x, box.min.x, box.max.x),
                 SlabAxis(ray.position.y, ray.direction.y, box.min.y, box.max.y),
                 SlabAxis(ray.position.z, ray.direction.z, box.min.z, box.max.z) >>
        bd == { k \in 1 .. 3 : ax[k].bounded }
    IN  IF \E k \in 1 .. 3 : ax[k].empty
        THEN NoHit
        ELSE IF bd = {}
        THEN [hit |-> TRUE, distance |-> 0, point |-> ray.position]
        ELSE LET kn == CHOOSE k \in bd : \A j \in bd : FracLeq(ax[j].near, ax[k].near)
                 kf == CHOOSE k \in bd : \A j \in bd : FracLeq(ax[k].far, ax[j].far)
                 tmin == ax[kn].near
                 tmax == ax[kf].far
                 inside == /\ ray.position.x > box.min.x /\ ray.position.x < box.max.x
                           /\ ray.position.y > box.min.y /\ ray.position.y < box.max.y
                           /\ ray.position.z > box.min.z /\ ray.position.z < box.max.z
                 t == IF inside THEN tmax ELSE tmin
             IN  IF tmax[1] < 0 \/ ~FracLeq(tmin, tmax)
                 THEN NoHit
                 ELSE [hit |-> TRUE,
                       distance |-> Sign(t[1]) * ((Abs(t[1]) * FP) \div t[2]),
                       point |-> ray.position]

\* The hits of the triangles of a mesh, in loop order.
TriangleHits(ray, mesh) ==
    [k \in 1 .. Len(mesh.triangles) |-> GetRayCollisionTriangle(ray, mesh.triangles[k])]

\* `float closestDistance = 10000.0f`, the initial value of the search for
\* the nearest hit.
FarAway == 10000 * FP

\* The inner loops of the ray queries: the nearest of the hits from index k
\* on that is strictly nearer than `best`.
RECURSIVE Closest(_, _, _)
Closest(hits, k, best) ==
    IF k > Len(hits) THEN best
    ELSE IF hits[k].hit /\ hits[k].distance < best.distance
    THEN Closest(hits, k + 1, hits[k])
    ELSE Closest(hits, k + 1, best)

\* CheckCollisionWithModel: some triangle of a mesh whose bounding box is
\* entered within maxDistance is hit within maxDistance.
CheckCollisionWithModel(origin, direction, mdl, maxDistance) ==
    LET ray == Ray(origin, direction)
    IN  \E i \in 1 .. Len(mdl) :
            LET boxCollision == GetRayCollisionBox(ray, GetMeshBoundingBox(mdl[i]))
                hits == TriangleHits(ray, mdl[i])
            IN  /\ boxCollision.hit /\ boxCollision.distance < maxDistance
                /\ \E t \in 1 .. Len(hits) :
                       hits[t].hit /\ hits[t].distance < maxDistance

\* GetGroundHeight, the loop over the meshes from mesh i on.
RECURSIVE GroundScan(_, _, _, _)
GroundScan(ray, mdl, i, best) ==
    IF i > Len(mdl) THEN best
    ELSE IF GetRayCollisionBox(ray, GetMeshBoundingBox(mdl[i])).hit
    THEN GroundScan(ray, mdl, i + 1, Closest(TriangleHits(ray, mdl[i]), 1, best))
    ELSE GroundScan(ray, mdl, i + 1, best)

\* GetGroundHeight: a ray straight down from 10.0 above the position.
GetGroundHeight(position, mdl) ==
    LET ray == Ray(Vec(position.x, position.y + 10 * FP, position.z), Vec(0, 0 - FP, 0))
        best == GroundScan(ray, mdl, 1, [hit |-> FALSE, distance |-> FarAway, point |-> Zero3])
    IN  IF best.distance >= FarAway
        THEN UNIT_HEIGHT_OFFSET
        ELSE best.point.y + UNIT_HEIGHT_OFFSET

\* GetGroundPositionFromMouse, the loop over the meshes from mesh i on: only
\* a mesh with an index array has its triangles tested.
RECURSIVE MouseScan(_, _, _, _)
MouseScan(ray, mdl, i, best) ==
    IF i > Len(mdl) THEN best
    ELSE IF GetRayCollisionBox(ray, GetMeshBoundingBox(mdl[i])).hit /\ mdl[i].indexed
    THEN MouseScan(ray, mdl, i + 1, Closest(TriangleHits(ray, mdl[i]), 1, best))
    ELSE MouseScan(ray, mdl, i + 1, best)

\* The floats that are not numbers: the infinities and NaN, as values
\* outside the range of every coordinate of the model.
Infinity == 1000000 * FP
NaN == 0 - Infinity - 1

\* c * t for a float c and t = +infinity.
TimesInfinity(c) ==
    IF c = 0 THEN NaN ELSE IF c > 0 THEN Infinity ELSE 0 - Infinity

\* GetGroundPositionFromMouse, with the ray of GetMouseRay as its argument.
\* The division by ray.direction.y is not guarded: for a direction.y of
\* 0.0, t is +infinity for a ray that starts below the plane y = 0,
\* -infinity for one that starts above it and NaN for one that starts in it,
\* and t > 0 holds for the first only.
GetGroundPositionFromMouse(ray, mdl) ==
    LET best == MouseScan(ray, mdl, 1, [hit |-> FALSE, distance |-> FarAway, point |-> Zero3])
        o == ray.position
        d == ray.direction
    IN  IF best.hit
        THEN Vec(best.point.x, best.point.y + UNIT_HEIGHT_OFFSET, best.point.z)
        ELSE IF d.y = 0
        THEN IF o.y < 0
             THEN Vec(TimesInfinity(d.x), UNIT_HEIGHT_OFFSET, TimesInfinity(d.z))
             ELSE Vec(0, UNIT_HEIGHT_OFFSET, 0)
        ELSE IF Sign(0 - o.y) = Sign(d.y) /\ o.y /= 0
        THEN LET t == (Abs(o.y) * FP) \div Abs(d.y)
             IN  Vec(o.x + Mul(d.x, t), UNIT_HEIGHT_OFFSET, o.z + Mul(d.z, t))
        ELSE Vec(0, UNIT_HEIGHT_OFFSET, 0)

(***************************************************************************)
(* Commands and the per-frame unit update                                  *)
(***************************************************************************)

UNIT_SIZE == (3 * FP) \div 10
UNIT_SPEED == 2 * FP
UNIT_AVOIDANCE_DISTANCE == (15 * FP) \div 10
UNIT_ARRIVAL_DISTANCE == FP \div 2

\* GetFrameTime(): every frame takes a quarter of a second.
deltaTime == FP \div 4

\* The largest r with r * r <= a, for lo * lo <= a < hi * hi.
RECURSIVE IsqrtIn(_, _, _)
IsqrtIn(a, lo, hi) ==
    IF hi - lo <= 1 THEN lo
    ELSE LET mid == (lo + hi) \div 2
         IN  IF mid * mid <= a THEN IsqrtIn(a, mid, hi) ELSE IsqrtIn(a, lo, mid)

\* (int)sqrtf(a), and the fixed-point sqrtf when a is a product of lengths.
Isqrt(a) == IsqrtIn(a, 0, 32768)

Vector3Add(a, b) == Vec(a.x + b.x, a.y + b.y, a.z + b.z)
Vector3Subtract(a, b) == Vec(a.x - b.x, a.y - b.y, a.z - b.z)
Vector3Scale(v, k) == Vec(Mul(v.x, k), Mul(v.y, k), Mul(v.z, k))

\* The square of Vector3Length, in units of 1 / (FP * FP).
LengthSqr(v) == v.x * v.x + v.y * v.y + v.z * v.z
DistanceSqr(a, b) == LengthSqr(Vector3Subtract(a, b))
Vector3Length(v) == Isqrt(LengthSqr(v))

Div(a, b) == Sign(a) * ((Abs(a) * FP) \div b)

\* Vector3Normalize: the zero vector is returned as it is.
Vector3Normalize(v) ==
    LET len == Vector3Length(v)
    IN  IF len = 0 THEN v ELSE Vec(Div(v.x, len), Div(v.y, len), Div(v.z, len))

\* Mutant of FormationOffset: the column is computed like the row.
FormationOffset_ColumnIsRow(currentUnit, selectedCount) ==
    LET cols == IF Isqrt(selectedCount) = 0 THEN 1 ELSE Isqrt(selectedCount)
        spacing == (UNIT_SIZE * 25) \div 10
        row == currentUnit \div cols
        col == currentUnit \div cols
    IN  Vec(((2 * col - cols) * spacing) \div 2, 0,
            ((2 * row - (selectedCount \div cols)) * spacing) \div 2)

\* CommandUnitsToPosition, formationOffset of the currentUnit-th selected
\* unit: (col - cols/2.0f) and (row - selectedCount/cols/2.0f) times the
\* spacing, the second quotient being an integer division by cols.
FormationOffset(currentUnit, selectedCount) ==
    LET cols == IF Isqrt(selectedCount) = 0 THEN 1 ELSE Isqrt(selectedCount)
        spacing == (UNIT_SIZE * 25) \div 10
        row == currentUnit \div cols
        col == currentUnit % cols
    IN  Vec(((2 * col - cols) * spacing) \div 2, 0,
            ((2 * row - (selectedCount \div cols)) * spacing) \div 2)

\* The selected active units among the first n slots of us.
SelectedIn(us, n) == { i \in DOMAIN us : i < n /\ us[i].active /\ us[i].selected }

\* CommandUnitsToPosition, the second loop from slot i on.
RECURSIVE CommandLoop(_, _, _, _, _, _, _)
CommandLoop(i, currentUnit, us, n, selectedCount, targetPos, mdl) ==
    IF i >= n THEN us
    ELSE IF us[i].active /\ us[i].selected
    THEN LET sum == Vector3Add(targetPos, FormationOffset(currentUnit, selectedCount))
             finalTarget == [sum EXCEPT !.y = GetGroundHeight(sum, mdl)]
         IN  CommandLoop(i + 1, currentUnit + 1,
                         [us EXCEPT ![i].commandTarget = finalTarget,
                                    ![i].hasCommand = TRUE,
                                    ![i].moveTimer = 0],
                         n, selectedCount, targetPos, mdl)
    ELSE CommandLoop(i + 1, currentUnit, us, n, selectedCount, targetPos, mdl)

\* Mutant of CommandUnitsToPosition: the empty selection is not tested.
CommandUnitsToPosition_NoEmptyTest(us, n, marker, targetPos, mdl) ==
    [units |-> CommandLoop(0, 0, us, n, Cardinality(SelectedIn(us, n)), targetPos, mdl),
     commandMarker |-> [position |-> targetPos, timer |-> FP, active |-> TRUE]]

\* CommandUnitsToPosition: the units and the command marker after the call.
CommandUnitsToPosition(us, n, marker, targetPos, mdl) ==
    LET selectedCount == Cardinality(SelectedIn(us, n))
    IN  IF selectedCount = 0
        THEN [units |-> us, commandMarker |-> marker]
        ELSE [units |-> CommandLoop(0, 0, us, n, selectedCount, targetPos, mdl),
              commandMarker |-> [position |-> targetPos, timer |-> FP, active |-> TRUE]]

\* Mutant of DrawCommandMarker: the timer does not run.
DrawCommandMarker_Stopped(marker, dt) == marker

\* DrawCommandMarker: the marker's timer runs down and switches it off.
DrawCommandMarker(marker, dt) ==
    IF ~marker.active THEN marker
    ELSE IF marker.timer - dt <= 0
    THEN [marker EXCEPT !.timer = marker.timer - dt, !.active = FALSE]
    ELSE [marker EXCEPT !.timer = marker.timer - dt]

\* The random draws of one UpdateUnit call: `wander` is the offset
\* <<cos(angle) * distance, sin(angle) * distance>> of a new wander target,
\* `timer` the new wander timer, `avoid` is <<cos, sin>> of the avoidance
\* angle.
Draw(wander, timer, avoid) == [wander |-> wander, timer |-> timer, avoid |-> avoid]

\* Mutant of ResolveTarget: the arrival test is left out.
ResolveTarget_NoArrival(unit, dt, draw) ==
    IF unit.hasCommand
    THEN [unit |-> unit, actualTarget |-> unit.commandTarget]
    ELSE LET u == IF unit.moveTimer - dt <= 0
                  THEN [unit EXCEPT !.targetPosition =
                                        Vec(unit.position.x + draw.wander[1],
                                            unit.position.y,
                                            unit.position.z + draw.wander[2]),
                                    !.moveTimer = draw.timer]
                  ELSE [unit EXCEPT !.moveTimer = unit.moveTimer - dt]
         IN  [unit |-> u, actualTarget |-> u.targetPosition]

\* UpdateUnit, target resolution: the unit after it and the target it
\* steers to.
ResolveTarget(unit, dt, draw) ==
    IF unit.hasCommand
    THEN [unit |-> IF DistanceSqr(unit.position, unit.commandTarget)
                        < UNIT_ARRIVAL_DISTANCE * UNIT_ARRIVAL_DISTANCE
                   THEN [unit EXCEPT !.hasCommand = FALSE, !.moveTimer = 0]
                   ELSE unit,
          actualTarget |-> unit.commandTarget]
    ELSE LET u == IF unit.moveTimer - dt <= 0
                  THEN [unit EXCEPT !.targetPosition =
                                        Vec(unit.position.x + draw.wander[1],
                                            unit.position.y,
                                            unit.position.z + draw.wander[2]),
                                    !.moveTimer = draw.timer]
                  ELSE [unit EXCEPT !.moveTimer = unit.moveTimer - dt]
         IN  [unit |-> u, actualTarget |-> u.targetPosition]

\* UpdateUnit, the two collision tests: scene geometry within the lookahead
\* along the direction, or another active unit within three unit sizes.
WillCollide(unit, i, us, n, mdl, direction) ==
    \/ CheckCollisionWithModel(unit.position, direction, mdl, UNIT_AVOIDANCE_DISTANCE)
    \/ \E j \in DOMAIN us :
           /\ j < n /\ j /= i /\ us[j].active
           /\ DistanceSqr(unit.position, us[j].position) < (UNIT_SIZE * 3) * (UNIT_SIZE * 3)

\* UpdateUnit, the deflected direction: the heading atan2f(z, x) of the
\* direction turned by the avoidance angle.
Deflect(direction, avoid) ==
    LET flat == Vec(direction.x, 0, direction.z)
        h == IF direction.x = 0 /\ direction.z = 0 THEN Vec(FP, 0, 0)
             ELSE Vector3Normalize(flat)
    IN  Vec(Mul(h.x, avoid[1]) - Mul(h.z, avoid[2]), 0,
            Mul(h.x, avoid[2]) + Mul(h.z, avoid[1]))

\* Mutant of Avoidance: a blocked unit gives up its command.
Avoidance_GivesUp(u, direction, dt, draw) ==
    LET deflected == Deflect(direction, draw.avoid)
    IN  [u EXCEPT !.hasCommand = FALSE,
                  !.targetPosition =
                      Vector3Add(u.position, Vector3Scale(deflected, 3 * FP)),
                  !.moveTimer = FP]

\* Mutant of Avoidance: a commanded unit is retargeted like a wandering one.
Avoidance_Retargets(u, direction, dt, draw) ==
    LET deflected == Deflect(direction, draw.avoid)
        detour == Vector3Add(u.position, Vector3Scale(deflected, 3 * FP))
    IN  IF u.hasCommand
        THEN [u EXCEPT !.position =
                 Vector3Add(u.position,
                            Vector3Scale(deflected, Mul(UNIT_SPEED, dt) \div 2)),
                       !.targetPosition = detour]
        ELSE [u EXCEPT !.targetPosition = detour, !.moveTimer = FP]

\* Mutant of Avoidance: the detour is walked at full speed.
Avoidance_FullSpeed(u, direction, dt, draw) ==
    LET deflected == Deflect(direction, draw.avoid)
    IN  IF u.hasCommand
        THEN [u EXCEPT !.position =
                 Vector3Add(u.position,
                            Vector3Scale(deflected, Mul(UNIT_SPEED, dt)))]
        ELSE [u EXCEPT !.targetPosition =
                 Vector3Add(u.position, Vector3Scale(deflected, 3 * FP)),
                       !.moveTimer = FP]

\* UpdateUnit, the willCollide branch: a commanded unit takes half a step
\* along the deflected direction; a wandering unit stays where it is and
\* takes the point 3.0 along the deflected direction as its wander target,
\* with a wander timer of one second.
Avoidance(u, direction, dt, draw) ==
    LET deflected == Deflect(direction, draw.avoid)
    IN  IF u.hasCommand
        THEN [u EXCEPT !.position =
                 Vector3Add(u.position,
                            Vector3Scale(deflected, Mul(UNIT_SPEED, dt) \div 2))]
        ELSE [u EXCEPT !.targetPosition =
                 Vector3Add(u.position, Vector3Scale(deflected, 3 * FP)),
                       !.moveTimer = FP]

\* UpdateUnit, with the random numbers it draws made explicit.
UpdateUnit(unit, i, us, n, mdl, dt, draw) ==
    IF ~unit.active THEN unit
    ELSE
    LET r == ResolveTarget(unit, dt, draw)
        u == r.unit
        toTarget == Vector3Subtract(r.actualTarget, u.position)
        moved ==
            IF LengthSqr(toTarget) * 100 > FP * FP
            THEN LET direction == Vector3Normalize(toTarget)
                 IN  IF WillCollide(u, i, us, n, mdl, direction)
                     THEN Avoidance(u, direction, dt, draw)
                     ELSE [u EXCEPT !.position =
                              Vector3Add(u.position,
                                         Vector3Scale(direction, Mul(UNIT_SPEED, dt)))]
            ELSE u
    IN  [moved EXCEPT !.position.y = GetGroundHeight(moved.position, mdl)]

(***************************************************************************)
(* The program: one action per frame and input event                       *)
(***************************************************************************)

\* The units the interface counts as selected.
SelectedSet == { i \in Slots : i < unitCount /\ units[i].active /\ units[i].selected }

ActiveSet == { i \in Slots : units[i].active }

Members(g) == InSeq(controlGroups[g].unitIndices)

\* History of AssignControlGroup(g): `members` is the selection it was applied
\* to; the record ends when one of them is deactivated, and `moved` notes that
\* one of them was assigned to another group since.
NoAssign == [done |-> FALSE, members |-> {}, moved |-> FALSE]

NoteDeactivation(us) ==
    [g \in Groups |->
        IF \E i \in assigned[g].members : ~us[i].active THEN NoAssign ELSE assigned[g]]

NoteAssignment(groupNum) ==
    [g \in Groups |->
        IF groupNum \notin Groups THEN assigned[g]
        ELSE IF g = groupNum
        THEN [done |-> TRUE, members |-> SelectedSet, moved |-> FALSE]
        ELSE IF assigned[g].members \cap SelectedSet /= {}
        THEN [assigned[g] EXCEPT !.moved = TRUE]
        ELSE assigned[g]]

\* commandMarker = {0}, and commandMarker.active = false before the loop.
NoMarker == [position |-> Zero3, timer |-> 0, active |-> FALSE]

\* No query has been made.
NoQuery == [op |-> "none"]

\* main inside its loop: the model has one mesh, there is no exit code yet
\* and the model is not unloaded.
Running ==
    [pc |-> "running", meshCount |-> 1, modelCenter |-> modelCenter,
     exitCode |-> 0 - 1, unloads |-> 0]

Init ==
    /\ units = [i \in Slots |-> EmptyUnit]
    /\ unitCount = 0
    /\ controlGroups = [g \in Groups |-> EmptyGroup]
    /\ viewMode = VIEW_MODE_ORBIT
    /\ orbit = [target |-> modelCenter]
    /\ isometric = [target |-> modelCenter, targetTarget |-> modelCenter,
                    targetPosition |-> Vec(0, 15 * FP, 10 * FP),
                    height |-> ISO_CAMERA_MIN_HEIGHT]
    /\ camera = [target |-> Zero3]
    /\ switches = 0
    /\ lastOp = [op |-> "Init", arg |-> 0]
    /\ assigned = [g \in Groups |-> NoAssign]
    /\ commandMarker = NoMarker
    /\ showUnits = TRUE
    /\ phase = "input"
    /\ frames = 0
    /\ query = NoQuery
    /\ answer = NoQuery
    /\ process = Running

\* The rest of a frame: the controller of the current mode updates the camera.
EndFrame(mode, orb, iso) ==
    /\ viewMode' = mode
    /\ orbit' = orb
    /\ isometric' = IF mode = VIEW_MODE_ISOMETRIC THEN SmoothIsometric(iso) ELSE iso
    /\ camera' = CameraOf(mode, orb, isometric')

\* KEY_TAB
SwitchView ==
    /\ switches < MaxViewSwitches
    /\ switches' = switches + 1
    /\ EndFrame(IF viewMode = VIEW_MODE_ORBIT THEN VIEW_MODE_ISOMETRIC
                ELSE VIEW_MODE_ORBIT, orbit, isometric)
    /\ lastOp' = [op |-> "SwitchView", arg |-> 0]
    /\ UNCHANGED <<units, unitCount, controlGroups, assigned, simulation>>

\* KEY_SPACE; lastOp.arg is the number of units created.
Spawn ==
    \E draws \in BurstDraws :
        LET r == SpawnLoop(1, units, unitCount, draws)
        IN  /\ units' = r.units
            /\ unitCount' = r.unitCount
            /\ lastOp' = [op |-> "Spawn", arg |-> r.unitCount - unitCount]
            /\ EndFrame(viewMode, orbit, isometric)
            /\ UNCHANGED <<controlGroups, switches, assigned, simulation>>

\* KEY_C
Clear ==
    /\ units' = ClearUnits(units)
    /\ unitCount' = 0
    /\ assigned' = NoteDeactivation(units')
    /\ lastOp' = [op |-> "Clear", arg |-> 0]
    /\ EndFrame(viewMode, orbit, isometric)
    /\ UNCHANGED <<controlGroups, switches, simulation>>

\* KEY_DELETE
Delete ==
    /\ units' = DeleteSelected(units, unitCount)
    /\ assigned' = NoteDeactivation(units')
    /\ lastOp' = [op |-> "Delete", arg |-> 0]
    /\ EndFrame(viewMode, orbit, isometric)
    /\ UNCHANGED <<unitCount, controlGroups, switches, simulation>>

\* Corners of a selection rectangle, in screen coordinates.
ScreenPoints == { [x |-> a, y |-> b] : a \in {0 - FP, FP}, b \in {0 - FP, FP} }

\* The corners are not given as (top-left, bottom-right).
Swapped(start, end) == start.x > end.x \/ start.y > end.y

\* UpdateIsometricCamera on the release of the left button, the drag having
\* gone from start to end; lastOp.arg is 1 for swapped corners.
BoxSelect(start, end) ==
    /\ viewMode = VIEW_MODE_ISOMETRIC
    /\ units' = SelectUnitsInBox(units, unitCount, start, end, camera)
    /\ lastOp' = [op |-> "BoxSelect", arg |-> IF Swapped(start, end) THEN 1 ELSE 0]
    /\ EndFrame(viewMode, orbit, isometric)
    /\ UNCHANGED <<unitCount, controlGroups, switches, assigned, simulation>>

\* Ctrl + group key: AssignControlGroup(groupNum).
AssignGroup(groupNum) ==
    LET r == AssignControlGroup(units, unitCount, controlGroups, groupNum)
    IN  /\ units' = r.units
        /\ controlGroups' = r.controlGroups
        /\ assigned' = NoteAssignment(groupNum)
        /\ lastOp' = [op |-> "AssignGroup", arg |-> groupNum]
        /\ EndFrame(viewMode, orbit, isometric)
        /\ UNCHANGED <<unitCount, switches, simulation>>

\* Group key without Ctrl: SelectControlGroup(groupNum), then the recentring.
SelectGroup(groupNum) ==
    LET r == SelectControlGroup(units, unitCount, controlGroups, groupNum)
        c == CenterOnGroup(viewMode, orbit, isometric, r.center)
    IN  /\ units' = r.units
        /\ lastOp' = [op |-> "SelectGroup", arg |-> groupNum]
        /\ EndFrame(viewMode, c.orbit, c.isometric)
        /\ UNCHANGED <<unitCount, controlGroups, switches, assigned, simulation>>

Next ==
    \/ SwitchView
    \/ Spawn
    \/ Clear
    \/ Delete
    \/ \E start \in ScreenPoints, end \in ScreenPoints : BoxSelect(start, end)
    \/ \E groupNum \in GroupArgs : AssignGroup(groupNum)
    \/ \E groupNum \in GroupArgs : SelectGroup(groupNum)

Spec == Init /\ [][Next]_vars

(***************************************************************************)
(* The unit simulation: a frame is an input step followed by the update    *)
(* step (unit updates, the U toggle, the command marker)                   *)
(***************************************************************************)

\* Wander targets are drawn 2.0 away (the smallest distance drawn) along an
\* axis, and such that the target stays within ArenaRadius of the origin in
\* x and in z whenever one of the four does.
WanderDraws(unit) ==
    LET all == { <<2 * FP, 0>>, <<0 - 2 * FP, 0>>, <<0, 2 * FP>>, <<0, 0 - 2 * FP>> }
        inside == { w \in all : /\ Abs(unit.position.x + w[1]) <= ArenaRadius * FP
                                /\ Abs(unit.position.z + w[2]) <= ArenaRadius * FP }
    IN  IF inside = {} THEN all ELSE inside

\* The avoidance angle is drawn as 0 or 90 degrees.
AvoidDraws == { <<FP, 0>>, <<0, FP>> }

\* UpdateUnit reaches the avoidance branch: the unit is further than 0.1
\* from the target it steers to and one of the collision tests succeeds.
Avoids(unit, i, us, n, mdl, dt, draw) ==
    LET r == ResolveTarget(unit, dt, draw)
        toTarget == Vector3Subtract(r.actualTarget, r.unit.position)
    IN  /\ unit.active
        /\ LengthSqr(toTarget) * 100 > FP * FP
        /\ WillCollide(r.unit, i, us, n, mdl, Vector3Normalize(toTarget))

\* The draws of one UpdateUnit call that make a difference: a wander offset
\* when the wander timer runs out, an avoidance angle when avoidance
\* triggers.  The wander timer is drawn as 2.0 seconds (the shortest drawn).
UnitDraws(unit, i, us, n) ==
    LET wanders == IF ~unit.hasCommand /\ unit.moveTimer - deltaTime <= 0
                   THEN WanderDraws(unit) ELSE { <<2 * FP, 0>> }
    IN  UNION { { Draw(w, 2 * FP, a) :
                    a \in IF Avoids(unit, i, us, n, model, deltaTime,
                                    Draw(w, 2 * FP, <<FP, 0>>))
                          THEN AvoidDraws ELSE { <<FP, 0>> } } : w \in wanders }

\* main, the loop over the units from slot i on: every outcome of updating
\* the active units in slot order, each seeing the units already updated.
\* An outcome is the units after the loop and the set `avoided` of the slots
\* whose update took the willCollide branch.
RECURSIVE UpdateUnits(_, _, _, _)
UpdateUnits(i, us, n, avoided) ==
    IF i >= n THEN { [units |-> us, avoided |-> avoided] }
    ELSE IF ~us[i].active THEN UpdateUnits(i + 1, us, n, avoided)
    ELSE UNION { UpdateUnits(i + 1,
                             [us EXCEPT ![i] = UpdateUnit(us[i], i, us, n, model,
                                                          deltaTime, d)],
                             n,
                             IF Avoids(us[i], i, us, n, model, deltaTime, d)
                             THEN avoided \cup { i } ELSE avoided)
                 : d \in UnitDraws(us[i], i, us, n) }

\* GetMouseRay for the clicks tried: rays straight down from 5.0 above the
\* ground level, over the middle of the model and beside it.
MouseRays ==
    { Ray(Vec(x, 5 * FP, z), Vec(0, 0 - FP, 0)) :
          x \in { (3 * FP) \div 8, (24 * FP) \div 10 }, z \in { (3 * FP) \div 8 } }

\* The state after TAB: isometric view, camera at rest, no units yet.
UnitInit ==
    /\ units = [i \in Slots |-> EmptyUnit]
    /\ unitCount = 0
    /\ controlGroups = [g \in Groups |-> EmptyGroup]
    /\ viewMode = VIEW_MODE_ISOMETRIC
    /\ orbit = [target |-> modelCenter]
    /\ isometric = [target |-> modelCenter, targetTarget |-> modelCenter,
                    targetPosition |-> Vec(0, 15 * FP, 10 * FP),
                    height |-> ISO_CAMERA_MIN_HEIGHT]
    /\ camera = [target |-> Zero3]
    /\ switches = MaxViewSwitches
    /\ lastOp = [op |-> "Init", arg |-> 0]
    /\ assigned = [g \in Groups |-> NoAssign]
    /\ commandMarker = NoMarker
    /\ showUnits = TRUE
    /\ phase = "input"
    /\ frames = 0
    /\ query = NoQuery
    /\ answer = NoQuery
    /\ process = Running

\* What the frames of UnitSpec leave alone: no group key is pressed and the
\* camera stays at rest.
selection == <<controlGroups, viewMode, orbit, isometric, camera, switches,
               assigned, query, answer, process>>

\* The input step of a frame, for the event `op`.
InputStep(op, arg) ==
    /\ phase = "input"
    /\ phase' = "update"
    /\ lastOp' = [op |-> op, arg |-> arg]
    /\ UNCHANGED <<showUnits, frames, selection>>

\* The same, in a run of at most MaxFrames frames.
Input(op, arg) == frames < MaxFrames /\ InputStep(op, arg)

\* A frame without input.
Idle ==
    /\ Input("Idle", 0)
    /\ UNCHANGED <<units, unitCount, commandMarker>>

\* Right mouse button: the clicked point goes to CommandUnitsToPosition;
\* lastOp.arg is that point.
RightClick(ray) ==
    LET targetPos == GetGroundPositionFromMouse(ray, model)
        r == CommandUnitsToPosition(units, unitCount, commandMarker, targetPos, model)
    IN  /\ Input("Command", targetPos)
        /\ units' = r.units
        /\ commandMarker' = r.commandMarker
        /\ UNCHANGED unitCount

\* KEY_SPACE
PressSpace ==
    \E draws \in BurstDraws :
        LET r == SpawnLoop(1, units, unitCount, draws)
        IN  /\ Input("Spawn", r.unitCount - unitCount)
            /\ units' = r.units
            /\ unitCount' = r.unitCount
            /\ UNCHANGED commandMarker

\* KEY_C
PressC ==
    /\ Input("Clear", 0)
    /\ units' = ClearUnits(units)
    /\ unitCount' = 0
    /\ UNCHANGED commandMarker

\* KEY_DELETE
PressDelete ==
    /\ Input("Delete", 0)
    /\ units' = DeleteSelected(units, unitCount)
    /\ UNCHANGED <<unitCount, commandMarker>>

\* KEY_U: the key is read after the unit updates of the frame.
PressU ==
    /\ Input("ToggleUnits", 0)
    /\ UNCHANGED <<units, unitCount, commandMarker>>

\* Corners of the rectangles dragged while the units move: the corners of
\* ScreenPoints and the points half-way between them in x.
DragPoints == ScreenPoints \cup { [x |-> 0, y |-> p.y] : p \in ScreenPoints }

\* Left button released after a drag from start to end.
DragSelect(start, end) ==
    /\ Input("BoxSelect", IF Swapped(start, end) THEN 1 ELSE 0)
    /\ units' = SelectUnitsInBox(units, unitCount, start, end, camera)
    /\ UNCHANGED <<unitCount, commandMarker>>

\* The rest of the frame: the unit updates when showUnits is set, then the
\* U toggle, then DrawCommandMarker.  lastOp notes the event of the frame
\* and the slots whose update took the willCollide branch, added to those
\* of `before`.
UpdateStepFrom(before) ==
    /\ phase = "update"
    /\ phase' = "input"
    /\ \E r \in (IF showUnits THEN UpdateUnits(0, units, unitCount, before)
                  ELSE { [units |-> units, avoided |-> before] }) :
           /\ units' = r.units
           /\ lastOp' = [op |-> "Update", arg |-> lastOp.op, avoided |-> r.avoided]
    /\ showUnits' = IF lastOp.op = "ToggleUnits" THEN ~showUnits ELSE showUnits
    /\ commandMarker' = DrawCommandMarker(commandMarker, deltaTime)
    /\ UNCHANGED <<unitCount, selection>>

UpdateStep == UpdateStepFrom({})

UpdateFrame == UpdateStep /\ frames' = frames + 1

UnitNext ==
    \/ Idle
    \/ \E ray \in MouseRays : RightClick(ray)
    \/ PressSpace
    \/ PressC
    \/ PressDelete
    \/ PressU
    \/ \E start \in DragPoints, end \in DragPoints : DragSelect(start, end)
    \/ UpdateFrame

UnitSpec == UnitInit /\ [][UnitNext]_vars

(***************************************************************************)
(* CommandUnitsToPosition on larger selections                             *)
(***************************************************************************)

\* The largest number of units commanded together.
MaxFormation == 9

\* The slots of the commanded units.
FormationSlots == 0 .. MaxFormation - 1

\* The clicked points: what GetGroundPositionFromMouse gives for MouseRays.
ClickedPoints == { GetGroundPositionFromMouse(ray, model) : ray \in MouseRays }

\* MaxFormation spawned units, those of `selected` selected and those of
\* `deleted` deleted.
FormationUnits(selected, deleted) ==
    [i \in FormationSlots |->
        [InitUnit(Vec(FP, UNIT_HEIGHT_OFFSET, 0))
            EXCEPT !.selected = i \in selected, !.active = i \notin deleted]]

\* What a query of a single function leaves alone.
program == <<units, unitCount, controlGroups, viewMode, orbit, isometric, camera,
             switches, lastOp, assigned, commandMarker, showUnits, phase, frames,
             process>>

\* A right click at targetPos is about to be handled.
FormationAsk ==
    /\ query = NoQuery
    /\ \E selected \in SUBSET FormationSlots,
          deleted \in { {}, { 0 }, { MaxFormation - 1 } },
          targetPos \in ClickedPoints :
           query' = [op |-> "Command",
                     units |-> FormationUnits(selected, deleted),
                     targetPos |-> targetPos]
    /\ UNCHANGED <<program, answer>>

\* The right click is handled: CommandUnitsToPosition runs.
FormationCommand ==
    /\ query /= NoQuery
    /\ answer = NoQuery
    /\ answer' = CommandUnitsToPosition(query.units, MaxFormation, NoMarker,
                                        query.targetPos, model)
    /\ UNCHANGED <<program, query>>

FormationNext == FormationAsk \/ FormationCommand

FormationSpec == UnitInit /\ [][FormationNext]_vars

(***************************************************************************)
(* Commanded units left to themselves: SPACE, a drag, DELETE, a drag and a  *)
(* right click, then frames without input                                  *)
(***************************************************************************)

\* The number of unit updates followed after a right click, that of the
\* frame of the click included.
MaxTicks == 9

\* Slot i holds an active unit that has a command.
HasCommand(i) == i < unitCount /\ units[i].active /\ units[i].hasCommand

\* The slots whose update took the willCollide branch in one of the frames
\* since the last input.
Obstructed ==
    IF lastOp.op = "Update" THEN lastOp.avoided
    ELSE IF lastOp.op = "Idle" THEN lastOp.arg
    ELSE {}

ArriveSpawn == frames = 0 /\ PressSpace

ArriveDrag ==
    /\ frames \in { 1, 3 }
    /\ \E start \in DragPoints, end \in DragPoints : DragSelect(start, end)

ArriveDelete == frames = 2 /\ PressDelete

ArriveClick == frames = 4 /\ \E ray \in MouseRays : RightClick(ray)

\* A frame without input, while a commanded unit is on its way that has
\* not been obstructed.
ArriveIdle ==
    /\ frames >= 5
    /\ frames < 4 + MaxTicks
    /\ \E i \in Slots : HasCommand(i) /\ i \notin Obstructed
    /\ InputStep("Idle", Obstructed)
    /\ UNCHANGED <<units, unitCount, commandMarker>>

\* The rest of a frame.
ArriveUpdate == UpdateStepFrom(Obstructed) /\ frames' = frames + 1

ArriveNext ==
    \/ ArriveSpawn
    \/ ArriveDrag
    \/ ArriveDelete
    \/ ArriveClick
    \/ ArriveIdle
    \/ ArriveUpdate

ArriveSpec == UnitInit /\ [][ArriveNext]_vars

(***************************************************************************)
(* The ground queries on their own                                         *)
(***************************************************************************)

\* Half the side of the flat planes queried.
PlaneHalfWidth == 4 * FP

\* A scene that is one flat square plane at height h, as an index-based
\* mesh or as consecutive vertex triples.
Plane(h, indexed) ==
    << Mesh(indexed, Face(0 - PlaneHalfWidth, PlaneHalfWidth,
                          0 - PlaneHalfWidth, PlaneHalfWidth, h)) >>

\* The heights of the planes queried.
PlaneHeights == { 0 - FP, 0, FP, 2 * FP }

\* How far above the plane the query points are: from one grid unit to
\* 20000.0.
StartOffsets ==
    { 1, FP \div 5, FP, 100 * FP, 9989 * FP, 9990 * FP - 1, 9990 * FP,
      9991 * FP, 20000 * FP }

\* The x and z of the query points: the middle and the rim of the plane.
PlaneCoordinates == { 0 - PlaneHalfWidth, 0, FP, PlaneHalfWidth }

\* The scenes clicked on: the loaded model, a plane stored as consecutive
\* vertex triples, and the model under a roof stored that way.
ClickScenes ==
    { model, Plane(FP, FALSE), Plane(FP, TRUE), model \o Plane(2 * FP, FALSE) }

\* GetMouseRay for the clicks tried on them: straight down from 5.0 up,
\* slanting from a camera 8.0 up and 6.0 back, and level (direction.y = 0)
\* from a camera below, in and above the plane y = 0.
ClickRays ==
    { Ray(Vec(x, 5 * FP, z), Vec(0, 0 - FP, 0)) :
          x \in { 0, FP, 6 * FP }, z \in { 0, FP } }
    \cup { Ray(Vec(x, 8 * FP, 6 * FP), Vec(0, 0 - (4 * FP) \div 5, 0 - (3 * FP) \div 5)) :
               x \in { 0, FP, 6 * FP } }
    \cup { Ray(Vec(0, 8 * FP, 6 * FP), Vec(0, (4 * FP) \div 5, 0 - (3 * FP) \div 5)) }
    \cup { Ray(Vec(0, y, 6 * FP), Vec(dx, 0, 0 - dz)) :
               y \in { 0 - 2 * FP, 0, 3 * FP },
               dx \in { 0, (3 * FP) \div 5 },
               dz \in { FP, (4 * FP) \div 5 } }

\* GetGroundHeight is about to be called over a flat plane.
AskGroundHeight ==
    /\ query = NoQuery
    /\ \E h \in PlaneHeights, indexed \in BOOLEAN, d \in StartOffsets,
          x \in PlaneCoordinates, z \in PlaneCoordinates :
           query' = [op |-> "GetGroundHeight", h |-> h, scene |-> Plane(h, indexed),
                     position |-> Vec(x, h + d, z)]
    /\ UNCHANGED <<program, answer>>

\* GetGroundPositionFromMouse is about to be called.
AskGroundPosition ==
    /\ query = NoQuery
    /\ \E scene \in ClickScenes, ray \in ClickRays :
           query' = [op |-> "GetGroundPositionFromMouse", scene |-> scene, ray |-> ray]
    /\ UNCHANGED <<program, answer>>

\* The heights of the floors of a scene with three storeys.
FloorHeights == << 0, 8 * FP, 15 * FP >>

\* The scenes a unit stands in: the loaded model, one floor, and three
\* floors above one another.
ClampScenes ==
    { model,
      Plane(FloorHeights[1], TRUE),
      Plane(FloorHeights[1], TRUE) \o Plane(FloorHeights[2], TRUE)
          \o Plane(FloorHeights[3], FALSE) }

\* The heights of the unit before the clamp: on a floor, between the floors,
\* above all of them, and below.
ClampHeights ==
    { FloorHeights[k] + UNIT_HEIGHT_OFFSET : k \in 1 .. 3 }
    \cup { 0 - 20 * FP, 0 - FP, 4 * FP, 12 * FP, 30 * FP }

\* UpdateUnit is about to clamp a unit that stands still to the ground, in
\* two frames one after the other.
AskGroundClamp ==
    /\ query = NoQuery
    /\ \E scene \in ClampScenes, x \in { 0, FP }, y \in ClampHeights :
           query' = [op |-> "UpdateUnit", scene |-> scene, position |-> Vec(x, y, 0)]
    /\ UNCHANGED <<program, answer>>

\* UpdateUnit, the last lines, for a unit at `position` that stays at its x
\* and z: its height after this frame and after the next.
GroundClamp(position, mdl) ==
    LET first == GetGroundHeight(position, mdl)
    IN  [first |-> first,
         second |-> GetGroundHeight(Vec(position.x, first, position.z), mdl)]

\* The units at a right click in the scene: slot 0 holds a selected unit that
\* stands on the ground at (1.0, 0), the other slots are free.
ClickUnits(scene) ==
    LET at == Vec(FP, GetGroundHeight(Vec(FP, 0, 0), scene), 0)
    IN  [i \in Slots |->
            IF i = 0
            THEN [EmptyUnit EXCEPT !.position = at, !.targetPosition = at,
                                   !.active = TRUE, !.selected = TRUE]
            ELSE EmptyUnit]

\* main is about to handle a press of the right mouse button.
AskRightClick ==
    /\ query = NoQuery
    /\ \E scene \in ClickScenes, ray \in ClickRays :
           query' = [op |-> "RightClick", scene |-> scene, ray |-> ray,
                     units |-> ClickUnits(scene)]
    /\ UNCHANGED <<program, answer>>

\* main, the right click: the point of GetGroundPositionFromMouse goes to
\* CommandUnitsToPosition, whatever the point is.
RightClickOrder(ray, us, mdl) ==
    CommandUnitsToPosition(us, 1, NoMarker, GetGroundPositionFromMouse(ray, mdl), mdl)

\* The call returns.
GroundAnswer ==
    /\ query /= NoQuery
    /\ answer = NoQuery
    /\ answer' = IF query.op = "GetGroundHeight"
                 THEN [op |-> query.op,
                       value |-> GetGroundHeight(query.position, query.scene)]
                 ELSE IF query.op = "UpdateUnit"
                 THEN [op |-> query.op,
                       value |-> GroundClamp(query.position, query.scene)]
                 ELSE IF query.op = "RightClick"
                 THEN [op |-> query.op,
                       value |-> RightClickOrder(query.ray, query.units, query.scene)]
                 ELSE [op |-> query.op,
                       value |-> GetGroundPositionFromMouse(query.ray, query.scene)]
    /\ UNCHANGED <<program, query>>

GroundNext ==
    AskGroundHeight \/ AskGroundPosition \/ AskGroundClamp \/ AskRightClick \/ GroundAnswer

GroundSpec == UnitInit /\ [][GroundNext]_vars

(***************************************************************************)
(* main: start, the camera controllers in the loop, and exit               *)
(***************************************************************************)

WINDOW_WIDTH == 800
WINDOW_HEIGHT == 600
CAMERA_MIN_DISTANCE == FP
CAMERA_MAX_DISTANCE == 100 * FP
ISO_CAMERA_PAN_SPEED == 10
ISO_CAMERA_EDGE_SCROLL_ZONE == 20
ISO_CAMERA_MAX_HEIGHT == 50 * FP
ISO_CAMERA_ZOOM_SPEED == 2
PI == (314159 * FP) \div 100000

\* a * num / den, rounded towards zero.
Frac(a, num, den) == Sign(a) * ((Abs(a) * num) \div den)

\* sinf and cosf: the angle is brought into [-PI, PI], folded into
\* [-PI/2, PI/2], and the sine series is summed up to the seventh power.
Sin(a) ==
    LET w == ((a + PI) % (2 * PI)) - PI
        x == IF w > PI \div 2 THEN PI - w
             ELSE IF w < 0 - PI \div 2 THEN 0 - PI - w
             ELSE w
        x2 == Mul(x, x)
        x3 == Mul(x, x2)
        x5 == Mul(x3, x2)
        x7 == Mul(x5, x2)
    IN  x - Frac(x3, 1, 6) + Frac(x5, 1, 120) - Frac(x7, 1, 5040)

Cos(a) == Sin(a + PI \div 2)

\* if (v > hi) v = hi; if (v < lo) v = lo;
Clamp(v, lo, hi) == IF v > hi THEN hi ELSE IF v < lo THEN lo ELSE v

\* The input of a frame: GetMousePosition (origin in the middle of the
\* window, as GetWorldToScreen has it), the buttons that are down, the keys
\* that are down or pressed (a press of the right mouse button is listed
\* with them, as "MOUSE_BUTTON_RIGHT"), and GetMouseWheelMove.
In(mouse, left, middle, keys, wheel) ==
    [mouse |-> mouse, left |-> left, middle |-> middle, keys |-> keys, wheel |-> wheel]

\* GetMouseDelta: the mouse position of this frame less that of the last.
GetMouseDelta(in, prev) ==
    [x |-> in.mouse.x - prev.mouse.x, y |-> in.mouse.y - prev.mouse.y]

\* The values main gives orbit before it loads the model, and KEY_R again.
OrbitDefaults ==
    [distance |-> 5 * FP, rotationH |-> PI \div 4, rotationV |-> (PI * 15) \div 100,
     target |-> Zero3]

\* UpdateOrbitCamera, the left button: yaw and pitch follow the mouse, and
\* the pitch is clamped.
OrbitRotate(orb, mouseDelta) ==
    [orb EXCEPT !.rotationH = @ - Frac(mouseDelta.x, 3 * FP, 1000),
                !.rotationV = Clamp(@ + Frac(mouseDelta.y, 3 * FP, 1000),
                                    FP \div 10 - PI \div 2,
                                    PI \div 2 - FP \div 10)]

\* Mutant of OrbitZoom: the distance is not clamped.
OrbitZoom_NoClamp(orb, wheelMove) ==
    [orb EXCEPT !.distance = @ - Frac(wheelMove * @, 1, 10)]

\* UpdateOrbitCamera, the wheel: CAMERA_ZOOM_SPEED 0.1f of the distance per
\* notch, clamped.
OrbitZoom(orb, wheelMove) ==
    [orb EXCEPT !.distance = Clamp(@ - Frac(wheelMove * @, 1, 10),
                                   CAMERA_MIN_DISTANCE, CAMERA_MAX_DISTANCE)]

\* Mutant of OrbitPan: the target keeps its y.
OrbitPan_Flat(orb, mouseDelta) ==
    [orb EXCEPT
        !.target = Vec(@.x + Frac(Frac(mouseDelta.x * Cos(orb.rotationH), 1, FP)
                                      * orb.distance, 1, 1000),
                       @.y,
                       @.z + Frac(Frac(mouseDelta.x * Sin(orb.rotationH), 1, FP)
                                      * orb.distance, 1, 1000))]

\* UpdateOrbitCamera, the middle button: the target moves by the mouse
\* delta times 0.001 of the distance, x and z along (cosH, sinH) and y by
\* the vertical delta.
OrbitPan(orb, mouseDelta) ==
    [orb EXCEPT
        !.target = Vec(@.x + Frac(Frac(mouseDelta.x * Cos(orb.rotationH), 1, FP)
                                      * orb.distance, 1, 1000),
                       @.y + Frac(mouseDelta.y * orb.distance, 1, 1000),
                       @.z + Frac(Frac(mouseDelta.x * Sin(orb.rotationH), 1, FP)
                                      * orb.distance, 1, 1000))]

\* UpdateOrbitCamera up to the camera position: rotation, zoom, pan and
\* the reset by KEY_R, in the order of the source.
UpdateOrbitCamera(orb, in, prev) ==
    LET mouseDelta == GetMouseDelta(in, prev)
        rotated == IF in.left THEN OrbitRotate(orb, mouseDelta) ELSE orb
        zoomed == IF in.wheel /= 0 THEN OrbitZoom(rotated, in.wheel) ELSE rotated
        panned == IF in.middle THEN OrbitPan(zoomed, mouseDelta) ELSE zoomed
    IN  IF "R" \in in.keys THEN OrbitDefaults ELSE panned

\* The values main gives isometric before it loads the model, and KEY_R
\* again (the rectangle is left as it is by KEY_R).
IsometricDefaults(iso) ==
    [iso EXCEPT !.target = Zero3, !.targetTarget = Zero3,
                !.targetPosition = Vec(0, 15 * FP, 10 * FP),
                !.height = 15 * FP]

\* UpdateIsometricCamera, the movement direction <<moveX, moveZ>>: one step
\* per axis for WASD or the arrow keys, and one more for the mouse within
\* ISO_CAMERA_EDGE_SCROLL_ZONE pixels of a window edge.
IsoMove(in) ==
    LET step(c) == IF c THEN 1 ELSE 0
        x == in.mouse.x + WINDOW_WIDTH \div 2
        y == in.mouse.y + WINDOW_HEIGHT \div 2
    IN  << step(in.keys \cap { "D", "RIGHT" } /= {})
               - step(in.keys \cap { "A", "LEFT" } /= {})
               + step(x > WINDOW_WIDTH - ISO_CAMERA_EDGE_SCROLL_ZONE)
               - step(x < ISO_CAMERA_EDGE_SCROLL_ZONE),
           step(in.keys \cap { "S", "DOWN" } /= {})
               - step(in.keys \cap { "W", "UP" } /= {})
               + step(y > WINDOW_HEIGHT - ISO_CAMERA_EDGE_SCROLL_ZONE)
               - step(y < ISO_CAMERA_EDGE_SCROLL_ZONE) >>

\* Mutant of IsoPan: the pending position and focus stay where they are.
IsoPan_Still(iso, move, dt) == iso

\* UpdateIsometricCamera, the movement applied: ISO_CAMERA_PAN_SPEED times
\* height / 20 per second along each axis, to the pending position and to
\* the pending focus.
IsoPan(iso, move, dt) ==
    LET moveSpeed == Frac(ISO_CAMERA_PAN_SPEED * iso.height, 1, 20)
        dx == Mul(move[1] * moveSpeed, dt)
        dz == Mul(move[2] * moveSpeed, dt)
    IN  [iso EXCEPT
            !.targetPosition = Vec(@.x + dx, @.y, @.z + dz),
            !.targetTarget = Vec(@.x + dx, @.y, @.z + dz)]

\* UpdateIsometricCamera, the middle button: 0.002 of the height per pixel.
IsoDrag(iso, mouseDelta) ==
    LET dx == Frac(mouseDelta.x * iso.height, 2, 1000)
        dz == Frac(mouseDelta.y * iso.height, 2, 1000)
    IN  [iso EXCEPT
            !.targetPosition = Vec(@.x - dx, @.y, @.z - dz),
            !.targetTarget = Vec(@.x - dx, @.y, @.z - dz)]

\* Mutant of IsoZoom: the height is not clamped.
IsoZoom_NoClamp(iso, wheelMove) ==
    [iso EXCEPT !.height = @ - wheelMove * ISO_CAMERA_ZOOM_SPEED * FP]

\* UpdateIsometricCamera, the wheel: ISO_CAMERA_ZOOM_SPEED per notch, clamped.
IsoZoom(iso, wheelMove) ==
    [iso EXCEPT !.height = Clamp(@ - wheelMove * ISO_CAMERA_ZOOM_SPEED * FP,
                                 ISO_CAMERA_MIN_HEIGHT, ISO_CAMERA_MAX_HEIGHT)]

\* Mutant of IsoSelection: the rectangle is committed in every frame in
\* which it is open.
IsoSelection_Eager(iso, mousePos, pressed, released) ==
    LET started == IF pressed
                   THEN [iso EXCEPT !.selecting = TRUE, !.selectionStart = mousePos,
                                    !.selectionEnd = mousePos]
                   ELSE iso
    IN  IF started.selecting
        THEN [isometric |-> [started EXCEPT !.selectionEnd = mousePos,
                                            !.selecting = ~released],
              boxSelect |-> TRUE]
        ELSE [isometric |-> started, boxSelect |-> FALSE]

\* UpdateIsometricCamera, the selection rectangle: IsMouseButtonPressed
\* opens it at the mouse, an open rectangle ends at the mouse, and
\* IsMouseButtonReleased closes it and has SelectUnitsInBox called
\* (boxSelect) with its two corners.
IsoSelection(iso, mousePos, pressed, released) ==
    LET started == IF pressed
                   THEN [iso EXCEPT !.selecting = TRUE, !.selectionStart = mousePos,
                                    !.selectionEnd = mousePos]
                   ELSE iso
    IN  IF started.selecting
        THEN [isometric |-> [started EXCEPT !.selectionEnd = mousePos,
                                            !.selecting = ~released],
              boxSelect |-> released]
        ELSE [isometric |-> started, boxSelect |-> FALSE]

\* UpdateIsometricCamera up to the camera position, in the order of the
\* source; a button is pressed when it is down and was up in the last
\* frame, and released when it is up and was down.
UpdateIsometricCamera(iso, in, prev, dt) ==
    LET mouseDelta == GetMouseDelta(in, prev)
        moved == IsoPan(iso, IsoMove(in), dt)
        dragged == IF in.middle THEN IsoDrag(moved, mouseDelta) ELSE moved
        zoomed == IF in.wheel /= 0 THEN IsoZoom(dragged, in.wheel) ELSE dragged
        sel == IsoSelection(zoomed, in.mouse, in.left /\ ~prev.left,
                            ~in.left /\ prev.left)
        reset == IF "R" \in in.keys THEN IsometricDefaults(sel.isometric)
                 ELSE sel.isometric
    IN  [isometric |-> SmoothIsometric(reset), boxSelect |-> sel.boxSelect]

\* The largest number of frames with freely chosen camera input.
MaxCameraFrames == 3

\* GetModelBounds: the box around the bounding boxes of all meshes.
GetModelBounds(mdl) ==
    LET boxes == { GetMeshBoundingBox(mdl[i]) : i \in 1 .. Len(mdl) }
        lo(S) == CHOOSE a \in S : \A b \in S : a <= b
        hi(S) == CHOOSE a \in S : \A b \in S : a >= b
    IN  IF Len(mdl) = 0 THEN [min |-> Zero3, max |-> Zero3]
        ELSE
        [min |-> Vec(lo({ b.min.x : b \in boxes }), lo({ b.min.y : b \in boxes }),
                     lo({ b.min.z : b \in boxes })),
         max |-> Vec(hi({ b.max.x : b \in boxes }), hi({ b.max.y : b \in boxes }),
                     hi({ b.max.z : b \in boxes }))]

\* main, from the model bounds to the first frame: the cameras are aimed at
\* the middle of the model, at a distance and a height that follow its
\* largest dimension and are clamped.
AimCameras(orb, iso, mdl) ==
    LET bounds == GetModelBounds(mdl)
        center == Vec((bounds.min.x + bounds.max.x) \div 2,
                      (bounds.min.y + bounds.max.y) \div 2,
                      (bounds.min.z + bounds.max.z) \div 2)
        maxDimension == Max(bounds.max.x - bounds.min.x,
                            Max(bounds.max.y - bounds.min.y,
                                bounds.max.z - bounds.min.z))
    IN  [modelCenter |-> center,
         orbit |-> [orb EXCEPT !.target = center,
                               !.distance = Clamp(maxDimension * 2,
                                                  CAMERA_MIN_DISTANCE,
                                                  CAMERA_MAX_DISTANCE)],
         isometric |-> [iso EXCEPT !.target = center,
                                   !.targetTarget = center,
                                   !.height = Clamp((maxDimension * 3) \div 2,
                                                    ISO_CAMERA_MIN_HEIGHT,
                                                    ISO_CAMERA_MAX_HEIGHT)]]

\* The mouse positions tried: two points well inside the window, one at
\* its left edge, one at its top edge, one in its bottom right corner, and
\* one below the window, where a drag can take the mouse.
MousePoints ==
    { [x |-> 0 - FP, y |-> 0 - FP], [x |-> FP, y |-> FP],
      [x |-> 5 - WINDOW_WIDTH \div 2, y |-> 0],
      [x |-> 0, y |-> 5 - WINDOW_HEIGHT \div 2],
      [x |-> 0, y |-> WINDOW_HEIGHT],
      [x |-> WINDOW_WIDTH \div 2 - 5, y |-> WINDOW_HEIGHT \div 2 - 5] }

\* The input before the first frame: the mouse rests inside the window.
NoInput == In([x |-> FP, y |-> FP], FALSE, FALSE, {}, 0)

\* main before LoadModel: the camera controllers have their defaults.
MainInit ==
    /\ units = [i \in Slots |-> EmptyUnit]
    /\ unitCount = 0
    /\ controlGroups = [g \in Groups |-> EmptyGroup]
    /\ viewMode = VIEW_MODE_ORBIT
    /\ orbit = OrbitDefaults
    /\ isometric = [target |-> Zero3, targetTarget |-> Zero3,
                    targetPosition |-> Vec(0, 15 * FP, 10 * FP),
                    height |-> 15 * FP, selecting |-> FALSE,
                    selectionStart |-> [x |-> 0, y |-> 0],
                    selectionEnd |-> [x |-> 0, y |-> 0]]
    /\ camera = [target |-> Zero3]
    /\ switches = 0
    /\ lastOp = [op |-> "Init", in |-> NoInput, boxSelect |-> FALSE]
    /\ assigned = [g \in Groups |-> NoAssign]
    /\ commandMarker = NoMarker
    /\ showUnits = TRUE
    /\ phase = "input"
    /\ frames = 0
    /\ query = NoQuery
    /\ answer = NoQuery
    /\ process = [pc |-> "start", meshCount |-> 0 - 1, modelCenter |-> Zero3,
                  exitCode |-> 0 - 1, unloads |-> 0]

\* What the steps of main outside the loop leave alone.
world == <<units, unitCount, controlGroups, viewMode, camera, switches, assigned,
           commandMarker, showUnits, phase, frames, query, answer>>

\* Mutant of LoadModel: the mesh count is not tested.
LoadModel_NoTest(proc, scene) ==
    [proc EXCEPT !.pc = "running", !.meshCount = Len(scene)]

\* main, LoadModel and the test that follows it: a scene without meshes
\* ends the process with exit code 1 (CloseWindow, no UnloadModel).
LoadModel(proc, scene) ==
    IF Len(scene) = 0
    THEN [proc EXCEPT !.pc = "exited", !.meshCount = 0, !.exitCode = 1]
    ELSE [proc EXCEPT !.pc = "running", !.meshCount = Len(scene)]

\* Mutant of Cleanup: the model is not unloaded.
Cleanup_NoUnload(proc) == [proc EXCEPT !.pc = "exited", !.exitCode = 0]

\* main after the loop: UnloadModel, CloseWindow, return 0.
Cleanup(proc) ==
    [proc EXCEPT !.pc = "exited", !.exitCode = 0, !.unloads = @ + 1]

\* A model like the loaded one, with its middle at (-1.0, -0.2, 0).
ShiftedModel ==
    << Mesh(TRUE,
            Face(0 - FP - HalfWidth, HalfWidth - FP, 0 - HalfWidth, HalfWidth,
                 HalfHeight - UNIT_HEIGHT_OFFSET)
            \o Face(0 - FP - HalfWidth, HalfWidth - FP, 0 - HalfWidth, HalfWidth,
                    0 - HalfHeight - UNIT_HEIGHT_OFFSET)) >>

\* main up to the loop: the scene file is loaded; a loaded scene has the
\* cameras aimed at it.
LoadScene(scene) ==
    /\ process.pc = "start"
    /\ process' = [LoadModel(process, scene) EXCEPT
                       !.modelCenter = AimCameras(orbit, isometric, scene).modelCenter]
    /\ IF process'.pc = "exited"
       THEN /\ lastOp' = [lastOp EXCEPT !.op = "LoadFailed"]
            /\ UNCHANGED <<orbit, isometric>>
       ELSE /\ lastOp' = [lastOp EXCEPT !.op = "Load"]
            /\ orbit' = AimCameras(orbit, isometric, scene).orbit
            /\ isometric' = AimCameras(orbit, isometric, scene).isometric
    /\ UNCHANGED world

\* The scene files tried: one without meshes, the slab, the shifted slab.
Load == \E scene \in { <<>>, model, ShiftedModel } : LoadScene(scene)

\* main, WindowShouldClose() is true: the loop ends and main cleans up.
Quit ==
    /\ process.pc = "running"
    /\ process' = Cleanup(process)
    /\ lastOp' = [lastOp EXCEPT !.op = "Quit"]
    /\ UNCHANGED <<orbit, isometric, world>>

\* The key that selects or assigns group g.
GroupKey(g) == IF g = 1 THEN "1" ELSE IF g = 2 THEN "2" ELSE "3"

\* main, KEY_SPACE: SpawnBurst calls of SpawnUnit around centerPos.
RECURSIVE SpawnAround(_, _, _, _, _)
SpawnAround(k, us, n, centerPos, draws) ==
    IF k > SpawnBurst
    THEN [units |-> us, unitCount |-> n]
    ELSE LET r == SpawnUnit(us, n, centerPos,
                            IF n \in Slots THEN draws[n] ELSE <<0, 0>>)
         IN  SpawnAround(k + 1, r.units, r.unitCount, centerPos, draws)

\* main, the end of a pass of the loop: the units `s` that KEY_SPACE left
\* are updated while they are shown.
FrameUnits(s) ==
    /\ unitCount' = s.unitCount
    /\ \E r \in (IF showUnits
                 THEN UpdateUnits(0, s.units, s.unitCount, {})
                 ELSE { [units |-> s.units, avoided |-> {}] }) :
           units' = r.units

\* main, KEY_SPACE, KEY_C and KEY_DELETE, in this order.
FrameKeys(in, us, draws) ==
    LET spawned == IF "SPACE" \in in.keys
                   THEN SpawnAround(1, us, unitCount, process.modelCenter, draws)
                   ELSE [units |-> us, unitCount |-> unitCount]
        cleared == IF "C" \in in.keys
                   THEN [units |-> ClearUnits(spawned.units), unitCount |-> 0]
                   ELSE spawned
    IN  IF "DELETE" \in in.keys
        THEN [units |-> DeleteSelected(cleared.units, cleared.unitCount),
              unitCount |-> cleared.unitCount]
        ELSE cleared

\* main, the rest of a pass of the loop once the group keys, the camera
\* controller and the right click have run: KEY_SPACE, KEY_C, KEY_DELETE,
\* the unit updates, KEY_U and the command marker.
FrameEnd(in, mode, groups, orb, iso, boxSelect, cmd) ==
    /\ process.pc = "running"
    /\ viewMode' = mode
    /\ controlGroups' = groups
    /\ orbit' = orb
    /\ isometric' = iso
    /\ camera' = CameraOf(mode, orbit', isometric')
    /\ \E draws \in BurstDraws : FrameUnits(FrameKeys(in, cmd.units, draws))
    /\ showUnits' = IF "U" \in in.keys THEN ~showUnits ELSE showUnits
    /\ commandMarker' = DrawCommandMarker(cmd.commandMarker, deltaTime)
    /\ lastOp' = [op |-> "Frame", in |-> in, boxSelect |-> boxSelect]
    /\ frames' = frames + 1
    /\ UNCHANGED <<switches, assigned, phase, query, answer, process>>

\* raylib GetMouseRay, abstracted like GetWorldToScreen to a top-down view
\* centred on the camera target: the ray goes straight down from 5.0 above
\* the ground level, through the point of the mouse.
GetMouseRay(mousePos, cam) ==
    Ray(Vec(cam.target.x + mousePos.x, 5 * FP, cam.target.z + mousePos.y),
        Vec(0, 0 - FP, 0))

\* Mutant of FrameCommand: the clicked point is worked out with the camera
\* of the frame before.
FrameCommand_OldCamera(in, mode, groups, orb, iso, boxSelect, us) ==
    FrameEnd(in, mode, groups, orb, iso, boxSelect,
             IF "MOUSE_BUTTON_RIGHT" \in in.keys
             THEN CommandUnitsToPosition(
                      us, unitCount, commandMarker,
                      GetGroundPositionFromMouse(GetMouseRay(in.mouse, camera), model),
                      model)
             ELSE [units |-> us, commandMarker |-> commandMarker])

\* main, the right click after the camera controller of either mode: the
\* point under the mouse, seen with the camera as the controller has just
\* left it, goes to CommandUnitsToPosition.  (Right clicks are tried on
\* `model` only.)
FrameCommand(in, mode, groups, orb, iso, boxSelect, us) ==
    FrameEnd(in, mode, groups, orb, iso, boxSelect,
             IF "MOUSE_BUTTON_RIGHT" \in in.keys
             THEN CommandUnitsToPosition(
                      us, unitCount, commandMarker,
                      GetGroundPositionFromMouse(
                          GetMouseRay(in.mouse, CameraOf(mode, orb, iso)), model),
                      model)
             ELSE [units |-> us, commandMarker |-> commandMarker])

\* Mutant of FrameBox: UpdateIsometricCamera runs in the orbit mode as well.
FrameBox_BothControllers(in, mode, groups, us, orb, centredIso, iso) ==
    FrameCommand(in, mode, groups, orb, iso.isometric,
                 mode = VIEW_MODE_ISOMETRIC /\ iso.boxSelect,
                 IF mode = VIEW_MODE_ISOMETRIC /\ iso.boxSelect
                 THEN SelectUnitsInBox(us, unitCount, iso.isometric.selectionStart,
                                       iso.isometric.selectionEnd, camera)
                 ELSE us)

\* main, the isometric mode after UpdateIsometricCamera returned `iso`: a
\* rectangle that was closed in this frame selects the units inside it.
FrameBox(in, mode, groups, us, orb, centredIso, iso) ==
    FrameCommand(in, mode, groups, orb,
                 IF mode = VIEW_MODE_ISOMETRIC THEN iso.isometric ELSE centredIso,
                 mode = VIEW_MODE_ISOMETRIC /\ iso.boxSelect,
                 IF mode = VIEW_MODE_ISOMETRIC /\ iso.boxSelect
                 THEN SelectUnitsInBox(us, unitCount, iso.isometric.selectionStart,
                                       iso.isometric.selectionEnd, camera)
                 ELSE us)

\* main, after the group keys: the camera of the mode is centred on the
\* selected group, and the camera controller of the mode runs.
FrameCameras(in, mode, groups, select) ==
    LET centred == CenterOnGroup(mode, orbit, isometric, select.center)
    IN  FrameBox(in, mode, groups, select.units,
                 IF mode = VIEW_MODE_ORBIT
                 THEN UpdateOrbitCamera(centred.orbit, in, lastOp.in)
                 ELSE centred.orbit,
                 centred.isometric,
                 UpdateIsometricCamera(centred.isometric, in, lastOp.in, deltaTime))

\* main, a group key without KEY_LEFT_CONTROL: SelectControlGroup.
FrameSelect(in, mode, g, assign) ==
    FrameCameras(in, mode, assign.controlGroups,
                 IF g /= 0 /\ "CTRL" \notin in.keys
                 THEN SelectControlGroup(assign.units, unitCount, controlGroups, g)
                 ELSE [units |-> assign.units, center |-> Zero3])

\* One pass of the main loop for the input `in`: the mode switch, the group
\* keys, the camera controller of the mode, the right click, KEY_SPACE,
\* KEY_C, KEY_DELETE, the unit updates, KEY_U and the command marker, each
\* stage handing its result to the next.
MainFrame(in) ==
    LET mode == IF "TAB" \in in.keys
                THEN IF viewMode = VIEW_MODE_ORBIT THEN VIEW_MODE_ISOMETRIC
                     ELSE VIEW_MODE_ORBIT
                ELSE viewMode
        pressed == { k \in Groups : GroupKey(k) \in in.keys }
        g == IF pressed = {} THEN 0 ELSE CHOOSE k \in pressed : TRUE
    IN  FrameSelect(in, mode, g,
                    IF g /= 0 /\ "CTRL" \in in.keys
                    THEN AssignControlGroup(units, unitCount, controlGroups, g)
                    ELSE [units |-> units, controlGroups |-> controlGroups])

\* The frames that set the scene: the units are hidden (KEY_U), spawned
\* (KEY_SPACE), the view is switched (KEY_TAB), a rectangle is dragged around
\* all units or around the first, they are assigned to group 1 (Ctrl + 1),
\* and the view is switched back or not.
Script ==
    << { In(NoInput.mouse, FALSE, FALSE, { "U" }, 0) },
       { In(NoInput.mouse, FALSE, FALSE, { "SPACE" }, 0) },
       { In(NoInput.mouse, FALSE, FALSE, { "TAB" }, 0) },
       { In([x |-> x, y |-> 0 - FP], TRUE, FALSE, {}, 0) : x \in { 0 - FP, 0 } },
       { In([x |-> FP, y |-> FP], FALSE, FALSE, {}, 0) },
       { In([x |-> FP, y |-> FP], FALSE, FALSE, { "CTRL", "1" }, 0) },
       { In([x |-> FP, y |-> FP], FALSE, FALSE, k, 0) : k \in { {}, { "TAB" } } } >>

\* The keys tried, one set per frame.
KeySets == { { "TAB" }, { "R" }, { "1" }, { "W" }, { "D" }, { "W", "D" }, { "A", "LEFT" } }

\* The wheel movements tried, in notches: single ones, and long ones that
\* reach the limits.
WheelMoves == { 1, 0 - 1, 10, 0 - 200 }

\* The inputs that may follow the input `prev`: the mouse moves with the
\* buttons as they are, or a button goes down or up, or keys are pressed, or
\* the wheel turns.
CameraInputs(prev) ==
    { In(m, prev.left, prev.middle, {}, 0) : m \in MousePoints }
    \cup { In(prev.mouse, ~prev.left, prev.middle, {}, 0),
           In(prev.mouse, prev.left, ~prev.middle, {}, 0) }
    \cup { In(prev.mouse, prev.left, prev.middle, k, 0) : k \in KeySets }
    \cup { In(prev.mouse, prev.left, prev.middle, {}, w) : w \in WheelMoves }

ScriptFrame ==
    /\ frames < Len(Script)
    /\ \E in \in Script[frames + 1] : MainFrame(in)

CameraFrame ==
    /\ frames >= Len(Script)
    /\ frames < Len(Script) + MaxCameraFrames
    /\ \E in \in CameraInputs(lastOp.in) : MainFrame(in)

MainNext == Load \/ ScriptFrame \/ CameraFrame \/ Quit

MainSpec == MainInit /\ [][MainNext]_vars

(***************************************************************************)
(* The command marker over frames without end                              *)
(***************************************************************************)

\* The first frame hides the units (KEY_U) and the second spawns them
\* (KEY_SPACE), so that they stand still; from then on rectangles are
\* dragged, points are clicked or nothing happens, frame after frame.
MarkerInput ==
    \/ frames = 0 /\ PressU
    \/ frames = 1 /\ PressSpace
    \/ frames = 2 /\ Idle
    \/ frames = 2 /\ \E ray \in MouseRays : RightClick(ray)
    \/ frames = 2 /\ \E start \in DragPoints, end \in DragPoints : DragSelect(start, end)

\* The rest of the frame; the frames are counted up to the second.
MarkerUpdate ==
    /\ UpdateStep
    /\ frames' = IF frames < 2 THEN frames + 1 ELSE frames

MarkerNext == MarkerInput \/ MarkerUpdate

\* The main loop does not stop: there is always a next frame.
MarkerSpec == UnitInit /\ [][MarkerNext]_vars /\ WF_vars(MarkerNext)

(***************************************************************************)
(* Wandering units left to themselves over frames without end              *)
(***************************************************************************)

\* The distances from the centre drawn for slot 1 (GetRandomValue gives them
\* in steps of 0.1).
CloseDistances == { (k * FP) \div 10 : k \in 11 .. 15 }

\* The draws of the spawn calls: slot 1 goes 1.1 to 1.5 from the centre at
\* angle 0, at most half a length from slot 0, which goes 1.0 from the
\* centre at the same angle; the other slots as in SpawnDraws.  All of them
\* stand on the model.
CloseDraws ==
    { d \in [Slots -> ({FP, 0 - FP} \cup CloseDistances) \X {0}] :
          \A n \in Slots :
              d[n] \in IF n = 1 THEN { <<c, 0>> : c \in CloseDistances }
                       ELSE SpawnDraws(n) }

\* The first frame spawns the units close to each other (KEY_SPACE); from
\* then on a rectangle is dragged or nothing happens, frame after frame.
WanderInput ==
    \/ /\ frames = 0
       /\ \E draws \in CloseDraws :
              LET r == SpawnLoop(1, units, unitCount, draws)
              IN  /\ InputStep("Spawn", r.unitCount - unitCount)
                  /\ units' = r.units
                  /\ unitCount' = r.unitCount
                  /\ UNCHANGED commandMarker
    \/ /\ frames = 1
       /\ \E start \in DragPoints, end \in DragPoints :
              /\ InputStep("BoxSelect", IF Swapped(start, end) THEN 1 ELSE 0)
              /\ units' = SelectUnitsInBox(units, unitCount, start, end, camera)
              /\ UNCHANGED <<unitCount, commandMarker>>
    \/ /\ frames = 1
       /\ InputStep("Idle", 0)
       /\ UNCHANGED <<units, unitCount, commandMarker>>

\* The rest of the frame; the frames are counted up to the first.
WanderUpdate ==
    /\ UpdateStep
    /\ frames' = IF frames < 1 THEN frames + 1 ELSE frames

WanderNext == WanderInput \/ WanderUpdate

\* The main loop polls the input in every frame it starts.
WanderSpec == UnitInit /\ [][WanderNext]_vars /\ WF_vars(WanderInput)

(***************************************************************************)
(* Right clicks in frames of the main loop                                 *)
(***************************************************************************)

\* Frames after the scripted ones in a run with right clicks.
MaxOrderFrames == 2

\* The frames that set the scene for a right click: the units are hidden,
\* spawned, the view is switched, a rectangle is dragged around all units or
\* around the first, they are assigned to group 1, and then the units are
\* shown again while a key starts the camera moving or switches the view back.
OrderScript ==
    SubSeq(Script, 1, 6)
    \o << { In([x |-> FP, y |-> FP], FALSE, FALSE, k, 0) :
              k \in { { "U" }, { "U", "W" }, { "U", "D" }, { "U", "TAB" } } } >>

\* The inputs after the script: a press of the right mouse button, alone or
\* with a key that moves the camera, or the key of group 1, or KEY_DELETE,
\* or no input at all.
RightClickInputs ==
    { In(m, FALSE, FALSE, { "MOUSE_BUTTON_RIGHT" } \cup k, 0) :
        m \in { [x |-> FP, y |-> FP], [x |-> 0 - FP, y |-> 0] },
        k \in { {}, { "A" } } }
    \cup { In([x |-> FP, y |-> FP], FALSE, FALSE, k, 0) :
              k \in { {}, { "1" }, { "DELETE" } } }

OrderLoad == LoadScene(model)

OrderScriptFrame ==
    /\ frames < Len(OrderScript)
    /\ \E in \in OrderScript[frames + 1] : MainFrame(in)

OrderClickFrame ==
    /\ frames >= Len(OrderScript)
    /\ frames < Len(OrderScript) + MaxOrderFrames
    /\ \E in \in RightClickInputs : MainFrame(in)

OrderNext == OrderLoad \/ OrderScriptFrame \/ OrderClickFrame \/ Quit

OrderSpec == MainInit /\ [][OrderNext]_vars

(***************************************************************************)
(* Claims                                                                  *)
(***************************************************************************)

\* The frame that ends in the primed state handled the event `name`.
IsOp(name) == lastOp'.op = name

C2_AtMostOneGroup ==
    \A i \in Slots : \A g \in Groups, h \in Groups :
        (i \in Members(g) /\ i \in Members(h)) => g = h

\* C3, for live members and a non-empty selection: AssignGroup(g) appends, so
\* an active member of g that is not part of the current selection is still
\* in g's list after the call.
C3_AssignAppends ==
    [][\A g \in Groups :
          (IsOp("AssignGroup") /\ lastOp'.arg = g /\ SelectedSet /= {})
              => \A i \in Members(g) \cap ActiveSet :
                     i \notin SelectedSet => i \in Members(g)']_vars

\* C4, without the active flags: AssignGroup with a group number outside the
\* valid range, or with no selected active unit, changes no unit and no
\* control group's membership list or count.
C4_AssignNoOp ==
    [][(IsOp("AssignGroup") /\ (lastOp'.arg \notin Groups \/ SelectedSet = {}))
          => /\ units' = units
             /\ \A g \in Groups :
                    /\ controlGroups'[g].unitIndices = controlGroups[g].unitIndices
                    /\ controlGroups'[g].unitCount = controlGroups[g].unitCount]_vars

\* What SelectControlGroup(g) rejects: a number outside the valid range, an
\* inactive group, an empty membership list.
Rejected(g) ==
    \/ g \notin Groups
    \/ ~controlGroups[g].active
    \/ controlGroups[g].unitCount = 0

\* C5: SelectGroup on a rejected group changes no unit and no group list,
\* returns the zero vector and leaves both cameras where they were.
C5_SelectNoOp ==
    [][\A g \in GroupArgs :
          (IsOp("SelectGroup") /\ lastOp'.arg = g /\ Rejected(g))
              => /\ units' = units
                 /\ controlGroups' = controlGroups
                 /\ SelectControlGroup(units, unitCount, controlGroups, g).center = Zero3
                 /\ orbit' = orbit /\ isometric' = isometric /\ camera' = camera]_vars

\* SelectGroup was just pressed for a rejected group while units were selected
\* (a deselection would show).
C5_Witness ==
    /\ lastOp.op = "SelectGroup"
    /\ Rejected(lastOp.arg)
    /\ SelectedSet /= {}
    /\ \E g \in Groups : controlGroups[g].active /\ controlGroups[g].unitCount > 0

\* C6: Delete deactivates exactly the selected units: unitCount, every group,
\* every unit's position, selected flag and group id stay, and the active
\* units afterwards are the ones that were active and not selected.
C6_DeleteFrame ==
    [][IsOp("Delete")
          => /\ unitCount' = unitCount
             /\ controlGroups' = controlGroups
             /\ \A i \in Slots :
                    /\ units'[i].position = units[i].position
                    /\ units'[i].selected = units[i].selected
                    /\ units'[i].groupId = units[i].groupId
             /\ ActiveSet' = ActiveSet \ SelectedSet]_vars

\* Delete has just deactivated a selected group member and left another unit.
C6_Witness ==
    /\ lastOp.op = "Delete"
    /\ \E i \in Slots, g \in Groups :
           /\ i < unitCount /\ ~units[i].active /\ units[i].selected
           /\ units[i].groupId = g /\ i \in Members(g)
    /\ ActiveSet /= {}

\* C7: SelectGroup(g) on an active non-empty group selects, among the slots in
\* use, exactly the active units of g's list, and leaves every group as it was.
C7_SelectGroupFrame ==
    [][\A g \in Groups :
          (IsOp("SelectGroup") /\ lastOp'.arg = g /\ ~Rejected(g))
              => /\ \A i \in Slots :
                        i < unitCount =>
                            (units'[i].selected <=> (i \in Members(g) /\ units[i].active))
                 /\ SelectedSet' = Members(g) \cap ActiveSet
                 /\ controlGroups' = controlGroups]_vars

\* SelectGroup(g) has just skipped a deactivated member and selected a live one.
C7_Witness ==
    /\ lastOp.op = "SelectGroup" /\ lastOp.arg \in Groups
    /\ ~Rejected(lastOp.arg)
    /\ \E i \in Members(lastOp.arg) : i < unitCount /\ ~units[i].active
    /\ \E i \in Members(lastOp.arg) : units[i].active /\ units[i].selected

\* C8: unitCount stays within 0..MAX_UNITS; a spawn burst creates only the
\* units that fit and touches no slot in use, so at the cap nothing changes.
C8_SpawnCap ==
    /\ [](unitCount >= 0 /\ unitCount <= MAX_UNITS)
    /\ [][IsOp("Spawn")
             => /\ unitCount' = Min(unitCount + SpawnBurst, MAX_UNITS)
                /\ \A i \in Slots : i < unitCount => units'[i] = units[i]
                /\ (unitCount = MAX_UNITS => units' = units)]_vars

\* A burst has just been cut short by the cap, with a selected unit and a
\* deactivated one in the pool.
C8_Witness ==
    /\ lastOp.op = "Spawn" /\ lastOp.arg = 0
    /\ unitCount = MAX_UNITS
    /\ \E i \in Slots : units[i].active /\ units[i].selected
    /\ \E i \in Slots : ~units[i].active

\* C9 as stated: unitCount never decreases, and a spawn never re-initialises a
\* slot that was allocated before (such a slot differs from EmptyUnit).
C9_AsStated ==
    [][/\ unitCount' >= unitCount
       /\ IsOp("Spawn") => \A i \in Slots : units[i] /= EmptyUnit => units'[i] = units[i]]_vars

\* C9, amended: only Clear lowers unitCount, and it sets it to 0; a spawn
\* initialises only slots at or above unitCount.
C9_HighWater ==
    [][/\ ~IsOp("Clear") => unitCount' >= unitCount
       /\ IsOp("Clear") => unitCount' = 0
       /\ IsOp("Spawn") => \A i \in Slots : i < unitCount => units'[i] = units[i]]_vars

\* A spawn after a Clear has just re-initialised a slot that a group still lists.
C9_Witness ==
    /\ lastOp.op = "Spawn" /\ lastOp.arg > 0
    /\ \E i \in Slots, g \in Groups :
           i \in Members(g) /\ units[i].active /\ units[i].groupId = 0

\* A screen point lies in the closed rectangle spanned by two corners.
InRectangle(p, c1, c2) ==
    /\ (c1.x <= p.x /\ p.x <= c2.x) \/ (c2.x <= p.x /\ p.x <= c1.x)
    /\ (c1.y <= p.y /\ p.y <= c2.y) \/ (c2.y <= p.y /\ p.y <= c1.y)

\* C10: after BoxSelect(c1, c2) the selected units are exactly the active
\* units whose projection lies in the closed rectangle, for either order of
\* the corners and whatever was selected before.
C10_BoxSelect ==
    [][IsOp("BoxSelect") => \A c1 \in ScreenPoints, c2 \in ScreenPoints :
          BoxSelect(c1, c2)
              => /\ \A i \in Slots :
                        i < unitCount =>
                            (units'[i].selected <=>
                                /\ units[i].active
                                /\ InRectangle(GetWorldToScreen(units[i].position, camera),
                                               c1, c2))
                 /\ units' = SelectUnitsInBox(units', unitCount, c1, c2, camera)]_vars

\* A rectangle given with swapped corners has just selected one active unit
\* and left another one out.
C10_Witness ==
    /\ lastOp.op = "BoxSelect" /\ lastOp.arg = 1
    /\ SelectedSet /= {}
    /\ ActiveSet \ SelectedSet /= {}

\* The step is the input step of a frame that handled the event `name`.
IsInput(name) == phase = "input" /\ IsOp(name)

\* The step is the update step of a frame, with the unit updates run.
IsUpdate == phase = "update" /\ phase' = "input" /\ showUnits

\* C11: a right click while no active unit is selected changes no unit
\* (command target, hasCommand and wander timer included) and leaves the
\* command marker's position, timer and active flag as they were.
C11_CommandNoOp ==
    [][(IsInput("Command") /\ SelectedSet = {})
         => (units' = units /\ commandMarker' = commandMarker)]_vars

\* A right click with no active unit selected, while the marker of an earlier
\* command is still shown, a slot is selected but deleted, and another unit
\* is active.
C11_Witness ==
    /\ phase = "update"
    /\ lastOp.op = "Command"
    /\ SelectedSet = {}
    /\ ActiveSet /= {}
    /\ commandMarker.active
    /\ \E i \in Slots : i < unitCount /\ units[i].selected /\ ~units[i].active

\* The selected active units of the right click asked for.
Commanded == SelectedIn(query.units, MaxFormation)

RECURSIVE SumOver(_, _)
SumOver(f, S) ==
    IF S = {} THEN 0
    ELSE LET i == CHOOSE j \in S : TRUE IN f[i] + SumOver(f, S \ { i })

\* C12: after CommandToPosition with N >= 1 selected active units, every one
\* of them has a command target, the targets of two of them differ in x or
\* in z, and the centroid of the N targets is within one formation spacing
\* (2.5 unit sizes) of the clicked point in x and in z.
C12_Formation ==
    (answer /= NoQuery /\ Commanded /= {}) =>
        LET us == answer.units
            N == Cardinality(Commanded)
            spacing == (UNIT_SIZE * 25) \div 10
            dx == [i \in Commanded |-> us[i].commandTarget.x - query.targetPos.x]
            dz == [i \in Commanded |-> us[i].commandTarget.z - query.targetPos.z]
        IN  /\ \A i \in Commanded : us[i].hasCommand
            /\ \A i \in Commanded : \A j \in Commanded :
                   i /= j => (dx[i] /= dx[j] \/ dz[i] /= dz[j])
            /\ Abs(SumOver(dx, Commanded)) <= N * spacing
            /\ Abs(SumOver(dz, Commanded)) <= N * spacing

\* MaxFormation units commanded together: three columns and three rows.
C12_Witness ==
    /\ answer /= NoQuery
    /\ Cardinality(Commanded) = MaxFormation
    /\ Cardinality({ answer.units[i].commandTarget.x : i \in Commanded }) = 3
    /\ Cardinality({ answer.units[i].commandTarget.z : i \in Commanded }) = 3

\* C13: when a single active unit is selected and a right click commands it,
\* the x and z of its command target are those of the clicked point, the
\* point handed to CommandUnitsToPosition (lastOp.arg).
C13_ExactPoint ==
    [][(IsInput("Command") /\ Cardinality(SelectedSet) = 1)
         => \A i \in SelectedSet :
                /\ units'[i].commandTarget.x = lastOp'.arg.x
                /\ units'[i].commandTarget.z = lastOp'.arg.z]_vars

\* hasCommand of slot i is set, and is cleared, by the step.
Rises(i) == ~units[i].hasCommand /\ units'[i].hasCommand
Falls(i) == units[i].hasCommand /\ ~units'[i].hasCommand

\* Slot i holds an active unit that is within the arrival threshold of its
\* command target.
Arrived(i) ==
    /\ i < unitCount
    /\ units[i].active
    /\ DistanceSqr(units[i].position, units[i].commandTarget)
           < UNIT_ARRIVAL_DISTANCE * UNIT_ARRIVAL_DISTANCE

\* Slot i is set by a right click that finds its unit active and selected.
CommandedBy(i) == IsInput("Command") /\ i \in SelectedSet

\* C14 as stated, a unit being a slot: hasCommand rises only in a right
\* click that finds the unit active and selected, and falls only in a unit
\* update that finds the unit within the arrival threshold of its command
\* target (so never in an update that takes the avoidance branch, which is
\* not reached at such a distance).
C14_AsStated ==
    [][\A i \in Slots : /\ Rises(i) => CommandedBy(i)
                        /\ Falls(i) => (IsUpdate /\ Arrived(i))]_vars

\* C14, amended: as above, and hasCommand also falls when SpawnUnit
\* initialises the slot anew, which happens to the slots of commanded units
\* after a clear.
C14_Modes ==
    [][\A i \in Slots :
           /\ Rises(i) => CommandedBy(i)
           /\ Falls(i) => \/ IsUpdate /\ Arrived(i)
                          \/ IsInput("Spawn") /\ unitCount <= i /\ i < unitCount']_vars

\* A unit commanded in an earlier frame has come within the arrival threshold
\* of its target and is about to be updated.
C14_Witness ==
    /\ phase = "update"
    /\ showUnits
    /\ lastOp.op /= "Command"
    /\ \E i \in Slots : Arrived(i) /\ units[i].hasCommand

AvoidanceTick(i) == IsUpdate /\ i \in lastOp'.avoided

\* The horizontal distance between two points.
HorizontalDistance(a, b) == Isqrt((a.x - b.x) * (a.x - b.x) + (a.z - b.z) * (a.z - b.z))

\* C16 as stated: an update in which avoidance triggers leaves the unit's
\* stored command target and its stored wander target as they were, for
\* commanded and for wandering units.
C16_AsStated ==
    [][\A i \in Slots :
           AvoidanceTick(i) => /\ units'[i].commandTarget = units[i].commandTarget
                               /\ units'[i].targetPosition = units[i].targetPosition]_vars

\* C16, amended: an update in which avoidance triggers leaves the stored
\* command target as it was; it leaves the stored wander target of a unit
\* that keeps its command as it was; a wandering unit is retargeted: its
\* wander target becomes a point 3.0 away from it (up to the rounding of the
\* fixed-point direction), with a wander timer of one second.
C16_Detour ==
    [][\A i \in Slots :
           AvoidanceTick(i) =>
               /\ units'[i].commandTarget = units[i].commandTarget
               /\ units'[i].hasCommand =>
                      units'[i].targetPosition = units[i].targetPosition
               /\ ~units'[i].hasCommand =>
                      /\ Abs(HorizontalDistance(units'[i].targetPosition,
                                                units'[i].position) - 3 * FP) <= 6
                      /\ units'[i].moveTimer = FP]_vars

\* An update has just taken the willCollide branch for a unit that has a
\* command and for a wandering one.
C16_Witness ==
    /\ lastOp.op = "Update"
    /\ \E i \in lastOp.avoided : units[i].hasCommand
    /\ \E j \in lastOp.avoided : ~units[j].hasCommand

\* The step from `from` to `to` is within 90 degrees of the horizontal
\* heading from `from` to `target` (up to 3 units of the fixed-point grid).
TurnedAside(from, to, target) ==
    (to.x - from.x) * (target.x - from.x) + (to.z - from.z) * (target.z - from.z)
        >= 0 - 3 * (HorizontalDistance(from, target) + 1)

\* C17 as stated: in an update in which avoidance triggers the unit's
\* horizontal position changes by half a step, UNIT_SPEED * dt * 0.5 (up to
\* 3 units of the fixed-point grid, the rounding of the direction and of the
\* step), commanded or wandering.
C17_AsStated ==
    [][\A i \in Slots :
           AvoidanceTick(i) =>
               Abs(HorizontalDistance(units'[i].position, units[i].position)
                     - Mul(UNIT_SPEED, deltaTime) \div 2) <= 3]_vars

\* C17, amended: in an update in which avoidance triggers, a unit that has
\* a command moves horizontally by half a step, UNIT_SPEED * dt * 0.5 (up to
\* 3 units of the fixed-point grid, the rounding of the direction and of the
\* step) and within 90 degrees of its heading to the command target; a
\* wandering unit, the unit whose command is cleared in that update
\* included, stays at its x and z.
C17_HalfStep ==
    [][\A i \in Slots :
           AvoidanceTick(i) =>
               /\ units'[i].hasCommand =>
                      /\ Abs(HorizontalDistance(units'[i].position, units[i].position)
                               - Mul(UNIT_SPEED, deltaTime) \div 2) <= 3
                      /\ TurnedAside(units[i].position, units'[i].position,
                                     units[i].commandTarget)
               /\ ~units'[i].hasCommand =>
                      /\ units'[i].position.x = units[i].position.x
                      /\ units'[i].position.z = units[i].position.z]_vars

\* An update has just taken the willCollide branch for a unit that has a
\* command and for a wandering unit at another z.
C17_Witness ==
    /\ lastOp.op = "Update"
    /\ \E i \in lastOp.avoided : \E j \in lastOp.avoided :
           /\ units[i].hasCommand
           /\ ~units[j].hasCommand
           /\ units[i].position.z /= units[j].position.z

\* C18: at the end of every frame, every active unit's y is GetGroundHeight
\* at its position, the frame in which it is spawned included.
C18_OnGround ==
    phase = "input" =>
        \A i \in Slots :
            (i < unitCount /\ units[i].active)
                => units[i].position.y = GetGroundHeight(units[i].position, model)

\* C19: over a flat plane at height h, GetGroundHeight returns h plus the
\* clearance for every query point above the plane, however far above.
C19_FlatPlane ==
    (answer.op = "GetGroundHeight" /\ query.position.y > query.h)
        => answer.value = query.h + UNIT_HEIGHT_OFFSET

\* The triangle hits of a ray in a scene, over all meshes of either kind.
AllHits(ray, scene) ==
    { hit \in UNION { { TriangleHits(ray, scene[i])[k] : k \in 1 .. Len(scene[i].triangles) }
                      : i \in 1 .. Len(scene) } : hit.hit }

\* C20: when the ray of a click hits a triangle of any mesh, index-based or
\* consecutive triples, GetGroundPositionFromMouse returns a nearest hit
\* point with the clearance added to its y, and not the point of the plane
\* y = 0.
C20_NearestHit ==
    (answer.op = "GetGroundPositionFromMouse" /\ AllHits(query.ray, query.scene) /= {})
        => \E hit \in AllHits(query.ray, query.scene) :
               /\ \A other \in AllHits(query.ray, query.scene) :
                      hit.distance <= other.distance
               /\ answer.value = Vec(hit.point.x, hit.point.y + UNIT_HEIGHT_OFFSET,
                                     hit.point.z)

\* C21: when the ray of a click hits no triangle and its direction.y is 0,
\* GetGroundPositionFromMouse returns the default point (0, clearance, 0),
\* wherever the ray starts.
C21_LevelRay ==
    (/\ answer.op = "GetGroundPositionFromMouse"
     /\ query.ray.direction.y = 0
     /\ AllHits(query.ray, query.scene) = {})
        => answer.value = Vec(0, UNIT_HEIGHT_OFFSET, 0)

\* C22: a scene without meshes ends the process with exit code 1 before
\* any frame has run; a loaded scene is not unloaded while the loop runs,
\* and the process that leaves the loop exits with code 0 and has unloaded
\* the scene exactly once.
C22_ExitCodes ==
    /\ process.meshCount = 0 =>
           /\ process.pc = "exited"
           /\ process.exitCode = 1
           /\ frames = 0
    /\ process.pc = "running" => process.exitCode = 0 - 1 /\ process.unloads = 0
    /\ (process.pc = "exited" /\ process.meshCount > 0) =>
           /\ process.exitCode = 0
           /\ process.unloads = 1

\* The loop has been left after all its frames.
C22_Witness ==
    /\ process.pc = "exited"
    /\ process.exitCode = 0
    /\ process.unloads = 1
    /\ frames = Len(Script) + MaxCameraFrames

\* C23: whatever was dragged, scrolled, reset or selected, the orbit
\* distance is within [CAMERA_MIN_DISTANCE, CAMERA_MAX_DISTANCE], the orbit
\* pitch within [-PI/2 + 0.1, PI/2 - 0.1] and the isometric height within
\* [ISO_CAMERA_MIN_HEIGHT, ISO_CAMERA_MAX_HEIGHT].
C23_Clamped ==
    /\ orbit.distance >= CAMERA_MIN_DISTANCE
    /\ orbit.distance <= CAMERA_MAX_DISTANCE
    /\ orbit.rotationV >= FP \div 10 - PI \div 2
    /\ orbit.rotationV <= PI \div 2 - FP \div 10
    /\ isometric.height >= ISO_CAMERA_MIN_HEIGHT
    /\ isometric.height <= ISO_CAMERA_MAX_HEIGHT

\* A drag has taken the pitch to its upper limit, with the orbit target away
\* from the origin.
C23_Witness ==
    /\ lastOp.op = "Frame"
    /\ viewMode = VIEW_MODE_ORBIT
    /\ lastOp.in.left
    /\ orbit.rotationV = PI \div 2 - FP \div 10
    /\ orbit.target /= Zero3

\* A frame of the orbit mode with the middle button down, without a reset
\* and without a group key.
PanFrame ==
    /\ lastOp'.op = "Frame"
    /\ viewMode' = VIEW_MODE_ORBIT
    /\ lastOp'.in.middle
    /\ lastOp'.in.keys \cap { "R", "1" } = {}

\* C24 as stated: a pan drag in orbit mode leaves the y of the orbit target
\* unchanged.
C24_AsStated ==
    [][PanFrame => orbit'.target.y = orbit.target.y]_vars

\* C24: a pan drag in orbit mode moves the orbit target by the mouse delta
\* times 0.001 of the distance: x and z by the horizontal delta along
\* (cos yaw, sin yaw), and y by the vertical delta (x and z up to the
\* rounding of the grid, which grows with the distance).
C24_Pan ==
    [][PanFrame =>
           LET mouseDelta == GetMouseDelta(lastOp'.in, lastOp.in)
               along == Frac(mouseDelta.x * orbit'.distance, 1, 1000)
               rounding == orbit'.distance \div 1000 + 2
           IN  /\ orbit'.target.y - orbit.target.y
                      = Frac(mouseDelta.y * orbit'.distance, 1, 1000)
               /\ Abs(orbit'.target.x - orbit.target.x
                          - Mul(along, Cos(orbit'.rotationH))) <= rounding
               /\ Abs(orbit'.target.z - orbit.target.z
                          - Mul(along, Sin(orbit'.rotationH))) <= rounding]_vars

\* A pan drag has just moved the orbit target sideways and down.
C24_Witness ==
    /\ lastOp.op = "Frame"
    /\ viewMode = VIEW_MODE_ORBIT
    /\ lastOp.in.middle
    /\ lastOp.in.keys = {}
    /\ orbit.target.y < 0
    /\ orbit.target.x /= 0
    /\ orbit.target.z /= 0

\* A frame of the isometric mode without a middle-button drag, a reset or a
\* group key: the pending focus moves by the keys and the edge zones only.
KeyPanFrame ==
    /\ lastOp'.op = "Frame"
    /\ viewMode' = VIEW_MODE_ISOMETRIC
    /\ ~lastOp'.in.middle
    /\ lastOp'.in.keys \cap { "R", "1" } = {}

\* ISO_CAMERA_PAN_SPEED * (height / 20) * dt.
PanStep(height) == Mul(Frac(ISO_CAMERA_PAN_SPEED * height, 1, 20), deltaTime)

\* The mouse is in none of the edge zones.
InsideEdges(mousePos) ==
    /\ Abs(mousePos.x) <= WINDOW_WIDTH \div 2 - ISO_CAMERA_EDGE_SCROLL_ZONE
    /\ Abs(mousePos.y) <= WINDOW_HEIGHT \div 2 - ISO_CAMERA_EDGE_SCROLL_ZONE

\* C25 as stated: the pending focus moves by at most
\* ISO_CAMERA_PAN_SPEED * (height / 20) * dt per frame.
C25_AsStated ==
    [][KeyPanFrame =>
           LET dx == isometric'.targetTarget.x - isometric.targetTarget.x
               dz == isometric'.targetTarget.z - isometric.targetTarget.z
               step == PanStep(isometric.height)
           IN  dx * dx + dz * dz <= step * step]_vars

\* C25: the movement is not normalized.  Each axis moves by a whole number
\* of steps ISO_CAMERA_PAN_SPEED * (height / 20) * dt, one for a key and one
\* for the edge zone: at most two per axis, one along x for KEY_D alone, two
\* for KEY_D with the mouse in the right edge zone, and one along each axis
\* for KEY_W with KEY_D.
C25_NotNormalized ==
    [][KeyPanFrame =>
           LET dx == isometric'.targetTarget.x - isometric.targetTarget.x
               dz == isometric'.targetTarget.z - isometric.targetTarget.z
               step == PanStep(isometric.height)
               in == lastOp'.in
               atRight == in.mouse.x > WINDOW_WIDTH \div 2 - ISO_CAMERA_EDGE_SCROLL_ZONE
           IN  /\ Abs(dx) <= 2 * step
               /\ Abs(dz) <= 2 * step
               /\ (in.keys = {} /\ InsideEdges(in.mouse)) => (dx = 0 /\ dz = 0)
               /\ (in.keys = { "D" } /\ InsideEdges(in.mouse)) => (dx = step /\ dz = 0)
               /\ (in.keys = { "D" } /\ atRight) => dx = 2 * step
               /\ (in.keys = { "W", "D" } /\ InsideEdges(in.mouse))
                      => (dx = step /\ dz = 0 - step)]_vars

\* KEY_D has just been pressed with the mouse in the right edge zone, one
\* frame after the mouse went there: three steps from the start in all.
C25_Witness ==
    /\ lastOp.op = "Frame"
    /\ viewMode = VIEW_MODE_ISOMETRIC
    /\ lastOp.in.keys = { "D" }
    /\ lastOp.in.mouse.x > WINDOW_WIDTH \div 2 - ISO_CAMERA_EDGE_SCROLL_ZONE
    /\ isometric.targetTarget.x = 3 * PanStep(isometric.height)

\* A frame in which UpdateIsometricCamera has run.
IsoFrame == lastOp'.op = "Frame" /\ viewMode' = VIEW_MODE_ISOMETRIC

\* C26: in a frame of the isometric mode, a press of the left button opens
\* the rectangle with both corners at the mouse; while the rectangle is open
\* and the button is not released, its end corner follows the mouse and its
\* start corner stays; the release closes it and has SelectUnitsInBox
\* called once, with the corner of the press and the mouse position of the
\* release; and SelectUnitsInBox is called in no other frame.
C26_Rectangle ==
    [][lastOp'.op = "Frame" =>
           LET in == lastOp'.in
               pressed == in.left /\ ~lastOp.in.left
               released == ~in.left /\ lastOp.in.left
           IN  /\ (IsoFrame /\ pressed) =>
                      /\ isometric'.selecting
                      /\ isometric'.selectionStart = in.mouse
                      /\ isometric'.selectionEnd = in.mouse
                      /\ ~lastOp'.boxSelect
               /\ (IsoFrame /\ isometric.selecting /\ ~pressed /\ ~released) =>
                      /\ isometric'.selecting
                      /\ isometric'.selectionStart = isometric.selectionStart
                      /\ isometric'.selectionEnd = in.mouse
                      /\ ~lastOp'.boxSelect
               /\ (IsoFrame /\ isometric.selecting /\ released) =>
                      /\ ~isometric'.selecting
                      /\ isometric'.selectionStart = isometric.selectionStart
                      /\ isometric'.selectionEnd = in.mouse
                      /\ lastOp'.boxSelect
                      /\ in.keys = {} =>
                             units' = SelectUnitsInBox(units, unitCount,
                                                       isometric.selectionStart,
                                                       in.mouse, camera)
               /\ lastOp'.boxSelect =>
                      (IsoFrame /\ isometric.selecting /\ released)
               /\ ~lastOp'.boxSelect =>
                      \A i \in Slots : units'[i].selected = units[i].selected
                                           \/ "1" \in in.keys]_vars

\* The button was pressed, the mouse moved, and the button has just been
\* released: the rectangle is closed and SelectUnitsInBox has deselected the
\* units outside it.
C26_Witness ==
    /\ lastOp.op = "Frame"
    /\ frames > Len(Script)
    /\ lastOp.boxSelect
    /\ ~isometric.selecting
    /\ isometric.selectionStart /= isometric.selectionEnd
    /\ \E i \in Slots : i < unitCount /\ ~units[i].selected

\* A right click has just commanded a non-empty selection.
CommandIssued == lastOp.op = "Command" /\ phase = "update" /\ SelectedIn(units, unitCount) /= {}

\* C27: a right click with a non-empty selection makes the marker active at
\* the clicked point with its timer at 1.0; the marker becomes active in no
\* other step; and an active marker is eventually inactive or replaced by
\* that of a new command.
C27_MarkerExpires ==
    /\ [][(IsInput("Command") /\ SelectedIn(units, unitCount) /= {})
              => commandMarker' = [position |-> lastOp'.arg, timer |-> FP,
                                   active |-> TRUE]]_vars
    /\ [][(~commandMarker.active /\ commandMarker'.active)
              => (IsInput("Command") /\ SelectedIn(units, unitCount) /= {})]_vars
    /\ (commandMarker.active /\ ~CommandIssued)
           ~> (~commandMarker.active \/ CommandIssued)

\* The marker of a command has run out.
C27_Witness ==
    /\ ~commandMarker.active
    /\ commandMarker.timer <= 0
    /\ commandMarker.position /= Zero3
    /\ \E i \in Slots : i < unitCount /\ units[i].hasCommand

\* The still-active members of group g.
ActiveMembers(g) ==
    { i \in Members(g) : i < unitCount /\ units[i].active }

\* p is the arithmetic mean of the positions of the units of S, up to the
\* rounding of the grid.
IsCentroid(p, S) ==
    LET n == Cardinality(S)
    IN  /\ Abs(n * p.x - SumOver([i \in S |-> units[i].position.x], S)) < n
        /\ Abs(n * p.y - SumOver([i \in S |-> units[i].position.y], S)) < n
        /\ Abs(n * p.z - SumOver([i \in S |-> units[i].position.z], S)) < n

\* C28: when the key of group 1 is pressed without Ctrl and nothing else is
\* done to the camera in that frame, and the group has a still-active
\* member, then exactly its still-active members are selected and the focus
\* of the camera of the current mode is their centroid.
C28_FocusOnGroup ==
    [][(/\ lastOp'.op = "Frame"
        /\ lastOp'.in.keys = { "1" }
        /\ ~lastOp'.in.left
        /\ ~lastOp'.in.middle
        /\ InsideEdges(lastOp'.in.mouse)
        /\ ActiveMembers(1) /= {})
           => /\ \A i \in Slots :
                     i < unitCount => (units'[i].selected <=> i \in ActiveMembers(1))
              /\ IsCentroid(camera'.target, ActiveMembers(1))
              /\ viewMode = VIEW_MODE_ORBIT
                     => IsCentroid(orbit'.target, ActiveMembers(1))
              /\ viewMode = VIEW_MODE_ISOMETRIC
                     => /\ IsCentroid(isometric'.target, ActiveMembers(1))
                        /\ IsCentroid(isometric'.targetTarget, ActiveMembers(1))]_vars

\* C29: in every reachable state, an active unit whose group id is g (the
\* number DrawUnit writes above it) is in the membership list of group g,
\* which is the list SelectControlGroup(g) selects from.
C29_NumberMeansMember ==
    \A i \in Slots : \A g \in Groups :
        (i < unitCount /\ units[i].active /\ units[i].groupId = g)
            => i \in Members(g)

\* C30: SelectGroup(g) only ever selects units whose group id is g: after a
\* SelectGroup(g) that the group accepts, every selected unit has group id g
\* (so a unit spawned into a reused slot after Clear, never assigned to g, is
\* not selected).
C30_SelectsOnlyOwn ==
    [][\A g \in Groups :
          (IsOp("SelectGroup") /\ lastOp'.arg = g /\ ~Rejected(g))
              => \A i \in SelectedSet' : units'[i].groupId = g]_vars

\* Slot i holds an active unit in wander mode with no scene geometry within
\* the lookahead on its way to its wander target.
FreeWanderer(i) ==
    /\ i < unitCount /\ units[i].active /\ ~units[i].hasCommand
    /\ ~CheckCollisionWithModel(
            units[i].position,
            Vector3Normalize(Vector3Subtract(units[i].targetPosition,
                                             units[i].position)),
            model, UNIT_AVOIDANCE_DISTANCE)

\* C31: in a run in which frames keep elapsing (the units are updated time
\* and again), an active unit in wander mode that no scene geometry blocks
\* is never immobile for good: time and again its position changes (or it
\* stops being such a unit), also when another active unit stands closer
\* than the separation radius.
C31_WanderersMove ==
    \A i \in Slots :
        []<>(lastOp.op = "Update" /\ showUnits)
            => \/ []<><<units'[i].position /= units[i].position>>_vars
               \/ []<>(~FreeWanderer(i))

\* The commanded units of the answer, each standing exactly on the formation
\* slot it was given, and no other unit.
OnSlots ==
    [i \in FormationSlots |->
        [answer.units[i] EXCEPT !.position = answer.units[i].commandTarget,
                                !.active = i \in Commanded]]

\* C32: the formation spacing is at least the separation radius of the
\* avoidance: of the units commanded together, each standing exactly on its
\* formation slot, none has another within the radius that makes UpdateUnit
\* take the willCollide branch (the scene geometry left aside).
C32_SlotsApart ==
    (answer /= NoQuery /\ Commanded /= {}) =>
        \A i \in Commanded :
            ~WillCollide(OnSlots[i], i, OnSlots, MaxFormation, <<>>, Vec(FP, 0, 0))

\* C33: in a frame with a right click the camera controller runs first, the
\* command is issued next, for the point under the mouse as the camera of
\* that very frame shows it, the units are updated after that, already under
\* the new order, and the command marker is drawn last.
C33_FrameOrder ==
    [][(/\ process.pc = "running"
        /\ frames' = frames + 1
        /\ lastOp'.op = "Frame"
        /\ "MOUSE_BUTTON_RIGHT" \in lastOp'.in.keys
        /\ ~lastOp'.boxSelect
        /\ lastOp'.in.keys \cap { "1", "2", "3", "SPACE", "C", "DELETE" } = {})
          => LET targetPos == GetGroundPositionFromMouse(
                                  GetMouseRay(lastOp'.in.mouse, camera'), model)
                 cmd == CommandUnitsToPosition(units, unitCount, commandMarker,
                                               targetPos, model)
             IN  /\ commandMarker' = DrawCommandMarker(cmd.commandMarker, deltaTime)
                 /\ showUnits =>
                        \E r \in UpdateUnits(0, cmd.units, unitCount, {}) :
                            units' = r.units]_vars

\* A right click in the isometric view while the focus is still moving, with
\* a unit under the order.
C33_Witness ==
    /\ lastOp.op = "Frame"
    /\ "MOUSE_BUTTON_RIGHT" \in lastOp.in.keys
    /\ viewMode = VIEW_MODE_ISOMETRIC
    /\ isometric.target /= isometric.targetTarget
    /\ showUnits
    /\ commandMarker.active
    /\ \E i \in Slots : i < unitCount /\ units[i].hasCommand

\* The vector SelectControlGroup returns in a frame with the input `in`: the
\* zero vector when no group key is pressed, or with KEY_LEFT_CONTROL.
SelectedCenter(in) ==
    LET pressed == { k \in Groups : GroupKey(k) \in in.keys /\ "CTRL" \notin in.keys }
    IN  IF pressed = {} THEN Zero3
        ELSE SelectControlGroup(units, unitCount, controlGroups,
                                CHOOSE k \in pressed : TRUE).center

\* C34 as stated: in a frame the controller of the current mode alone
\* changes the state of its camera, and the other camera keeps its state.
C34_AsStated ==
    [][(process.pc = "running" /\ frames' = frames + 1) =>
          IF viewMode' = VIEW_MODE_ORBIT
          THEN /\ isometric' = isometric
               /\ orbit' = UpdateOrbitCamera(orbit, lastOp'.in, lastOp.in)
          ELSE /\ orbit' = orbit
               /\ isometric' = UpdateIsometricCamera(isometric, lastOp'.in, lastOp.in,
                                                     deltaTime).isometric]_vars

\* C34, amended: in a frame the state of a camera changes only in its own
\* mode, and only by the recentring on a selected control group followed by
\* the controller of the mode; the command, the spawning, the deletion and
\* the unit updates of the frame leave both cameras alone, and so does the
\* end of the loop.
C34_CameraWriters ==
    [][process.pc = "running" =>
          IF frames' = frames + 1
          THEN LET centred == CenterOnGroup(viewMode', orbit, isometric,
                                            SelectedCenter(lastOp'.in))
               IN  IF viewMode' = VIEW_MODE_ORBIT
                   THEN /\ isometric' = isometric
                        /\ orbit' = UpdateOrbitCamera(centred.orbit, lastOp'.in, lastOp.in)
                   ELSE /\ orbit' = orbit
                        /\ isometric' = UpdateIsometricCamera(centred.isometric, lastOp'.in,
                                                              lastOp.in, deltaTime).isometric
          ELSE UNCHANGED <<orbit, isometric>>]_vars

\* A group key has recentred the orbit camera on the units of the group, in
\* a frame that updated the units as well.
C34_Witness ==
    /\ lastOp.op = "Frame"
    /\ "1" \in lastOp.in.keys
    /\ "CTRL" \notin lastOp.in.keys
    /\ viewMode = VIEW_MODE_ORBIT
    /\ orbit.target /= Zero3
    /\ \E i \in Slots : i < unitCount /\ units[i].active /\ units[i].selected

\* C35: every frame updates the units, whatever the display toggles are: a
\* frame without a selection, an order, a spawn or a deletion leaves the
\* units as one pass of UpdateUnit over all of them leaves them, also while
\* the units are hidden.
C35_UpdatedInEveryFrame ==
    [][(/\ process.pc = "running"
        /\ frames' = frames + 1
        /\ ~lastOp'.boxSelect
        /\ lastOp'.in.keys \subseteq { "U", "TAB", "W", "A", "D" })
          => \E r \in UpdateUnits(0, units, unitCount, {}) : units' = r.units]_vars

\* C36 as stated: in every frame of the isometric mode the focus moves, along
\* x and along z, by the smoothing fraction of what separates it from the
\* pending focus.
C36_AsStated ==
    [][IsoFrame =>
          /\ isometric'.target.x = Smooth(isometric.target.x, isometric'.targetTarget.x)
          /\ isometric'.target.z = Smooth(isometric.target.z, isometric'.targetTarget.z)]_vars

\* C36, amended: the focus moves by the smoothing fraction of what separates
\* it from the pending focus, except in a frame in which a control group is
\* selected or KEY_R is pressed: there the focus is first put on the centre
\* of the group, or on the origin, and the smoothing starts from that place.
C36_SmoothOrSet ==
    [][IsoFrame =>
          LET in == lastOp'.in
              center == SelectedCenter(in)
              from == IF "R" \in in.keys THEN Zero3
                      ELSE IF center /= Zero3 THEN center
                      ELSE isometric.target
          IN  /\ isometric'.target.x = Smooth(from.x, isometric'.targetTarget.x)
              /\ isometric'.target.z = Smooth(from.z, isometric'.targetTarget.z)]_vars

\* KEY_D has been held for a frame: the focus is on its way to the pending
\* focus and has reached neither it nor its old place.
C36_Witness ==
    /\ lastOp.op = "Frame"
    /\ viewMode = VIEW_MODE_ISOMETRIC
    /\ "D" \in lastOp.in.keys
    /\ isometric.target.x > 0
    /\ isometric.target.x < isometric.targetTarget.x

\* C37: while the rectangle of the isometric camera is open, the left mouse
\* button is down.
C37_SelectingMeansDown == isometric.selecting => lastOp.in.left

\* C38: a unit that the ground clamp has put at a height stays at that
\* height when the clamp runs again at the same x and z.
C38_ClampStable ==
    (answer /= NoQuery /\ answer.op = "UpdateUnit") =>
        answer.value.second = answer.value.first

\* C39: a right click whose ray hits no triangle and does not meet the plane
\* y = 0 in front of the camera (the ray is not level, and t <= 0) orders no
\* unit: hasCommand and commandTarget of every unit are as before the click.
C39_NoOrderFromTheSky ==
    (/\ answer /= NoQuery
     /\ answer.op = "RightClick"
     /\ AllHits(query.ray, query.scene) = {}
     /\ query.ray.direction.y /= 0
     /\ ~(Sign(0 - query.ray.position.y) = Sign(query.ray.direction.y)
          /\ query.ray.position.y /= 0))
        => \A i \in Slots :
               /\ answer.value.units[i].hasCommand = query.units[i].hasCommand
               /\ answer.value.units[i].commandTarget = query.units[i].commandTarget

\* C40: the unitCount of every control group is the number of its entries
\* and lies between 0 and MAX_UNITS, and the entries are slot indices in
\* [0, MAX_UNITS), no two of them the same.
C40_GroupsInBounds ==
    \A g \in Groups :
        LET grp == controlGroups[g]
        IN  /\ grp.unitCount \in 0 .. MAX_UNITS
            /\ grp.unitCount = Len(grp.unitIndices)
            /\ \A j \in 1 .. grp.unitCount : grp.unitIndices[j] \in 0 .. MAX_UNITS - 1
            /\ \A j, k \in 1 .. grp.unitCount :
                   grp.unitIndices[j] = grp.unitIndices[k] => j = k

\* A group is full, with every slot of the units array entered in it, and
\* the units came from another group, which is now empty.
C40_Witness ==
    \E g, h \in Groups :
        /\ g /= h
        /\ lastOp.op = "AssignGroup"
        /\ lastOp.arg = g
        /\ controlGroups[g].unitCount = MAX_UNITS
        /\ controlGroups[h].active
        /\ controlGroups[h].unitCount = 0
====
